---- MODULE Spec2Model ----
(***************************************************************************)
(* Model of the censorship measurement pipeline:                           *)
(*   notebooks/02_measure_connectivity.py  (probe, classify, measure)      *)
(*   notebooks/25_compare_vantages.py      (run aggregator, comparator)    *)
(*   notebooks/20_merge_local_and_ooni.py  (local summary)                 *)
(*   main.py                               (orchestrator)                  *)
(*                                                                         *)
(* Text is modelled as a sequence of words (a str is a Seq of tokens, the  *)
(* empty str is <<>>).  lower() maps every word to its lower-case form and *)
(* the substring test `needle in text` is decided word by word by the      *)
(* table Needles.  A CSV file is a header and positional lines of cells.   *)
(***************************************************************************)
EXTENDS Integers, Sequences, FiniteSets, TLC

VARIABLES
    cin,            \* arguments of the function under check (SpecClassify, SpecDiff)
    cout,           \* its return value (<<>> before the call)
    net,            \* SpecProbe: what the network answers to the two GETs
    probeOut,       \* SpecProbe: dict returned by fetch_http_https
    domainList,     \* data/domains.csv: lines of <<domain, category, subcategory, include_flag>>
    storeHeader,    \* data/raw_measurements.csv: header (<<>> = no/empty file)
    storeLines,     \* data/raw_measurements.csv: data lines, positional cells
    clock,          \* wall clock in seconds (datetime.now)
    pc,             \* position of the measure process: idle / loop / flush
    run_id,         \* main(): run_id of the invocation in progress
    vantage,        \* main(): vantage of the invocation in progress
    domains_df,     \* main(): result of load_domains
    idx,            \* main(): loop index into domains_df
    measurements,   \* main(): rows buffered for write_rows
    nRuns,          \* number of measure invocations started
    compFiles,      \* data/vantage_comparison_{l}_vs_{r}.csv, by <<l, r>>
    summaryFile,    \* data/domain_level_summary.csv
    feedFile,       \* data/ooni_india_webconnectivity_clean.csv
    compListing,    \* the comparison files in the order the data directory lists them
    enrichedFile,   \* data/domain_level_summary_enriched.csv
    ret             \* the last top-level call and what it returned/raised

vars == <<cin, cout, net, probeOut, domainList, storeHeader, storeLines, clock,
          pc, run_id, vantage, domains_df, idx, measurements, nRuns,
          compFiles, summaryFile, feedFile, compListing, enrichedFile, ret>>

(***************************************************************************)
(* Text                                                                    *)
(***************************************************************************)

\* str.lower(), word by word.
Lower(w) ==
    CASE w = "HTTPSConnectionPool"       -> "httpsconnectionpool"
      [] w = "ConnectTimeoutError"       -> "connecttimeouterror"
      [] w = "Name or service not known" -> "name or service not known"
      [] w = "SSLError"                  -> "sslerror"
      [] w = "HTTPS error:"              -> "https error:"
      [] w = "HTTP error:"               -> "http error:"
      [] w = "Welcome"                   -> "welcome"
      [] w = "Blocked as per the instructions received from the Department of Telecommunications"
           -> "blocked as per the instructions received from the department of telecommunications"
      [] w = "THIS URL HAS BEEN BLOCKED AS PER ORDER OF THE COMPETENT AUTHORITY"
           -> "this url has been blocked as per order of the competent authority"
      [] w = "YES"                       -> "yes"
      [] w = "True"                      -> "true"
      [] w = "False"                     -> "false"
      [] w = "Yes"                       -> "yes"
      [] w = "Adult content"             -> "adult content"
      [] w = "Torrent sites"             -> "torrent sites"
      [] w = "Pornography"               -> "pornography"
      [] w = "Messaging"                 -> "messaging"
      [] OTHER                           -> w

LowerText(t) == [i \in DOMAIN t |-> Lower(t[i])]

\* The needles a (lower-case) word contains as a substring.
Needles(w) ==
    CASE w = "httpsconnectionpool"       -> {"connection"}
      [] w = "connecttimeouterror"       -> {"timeout"}
      [] w = "timeout"                   -> {"timeout"}
      [] w = "connection"                -> {"connection"}
      [] w = "name or service not known" -> {"name or service not known"}
      [] w = "blocked as per the instructions received from the department of telecommunications"
           -> {"blocked as per the instructions received from the department of telecommunications"}
      [] w = "this url has been blocked as per order of the competent authority"
           -> {"this url has been blocked as per order of the competent authority"}
      [] w = "has been blocked as per the directions received from the competent authorities"
           -> {"has been blocked as per the directions received from the competent authorities"}
      [] w = "adult"                     -> {"adult"}
      [] w = "adult content"             -> {"adult"}
      [] w = "torrent sites"             -> {"torrent"}
      [] w = "pornography"               -> {"porn"}
      [] OTHER                           -> {}

\* `needle in text`
Contains(text, needle) == \E i \in DOMAIN text : needle \in Needles(text[i])

\* The prefixes a word starts with, and text.startswith(prefix).
Prefixes(w) ==
    CASE w = "Government"         -> {"Government"}
      [] w = "Government-Telecom" -> {"Government"}
      [] OTHER                    -> {}
StartsWith(text, prefix) == text # <<>> /\ prefix \in Prefixes(text[1])

RECURSIVE Flatten(_)
Flatten(ss) == IF ss = <<>> THEN <<>> ELSE Head(ss) \o Flatten(Tail(ss))

\* " ".join(parts): the separator is white space between words.
JoinSpace(parts) == Flatten(parts)

RECURSIVE JoinBar(_)
\* " | ".join(parts)
JoinBar(parts) ==
    IF parts = <<>> THEN <<>>
    ELSE IF Len(parts) = 1 THEN parts[1]
    ELSE parts[1] \o <<"|">> \o JoinBar(Tail(parts))

\* Optional[int]: None is <<>>, the int n is <<n>>.
None == <<>>
Some(n) == <<n>>

(***************************************************************************)
(* classify_http_outcome                                                   *)
(***************************************************************************)

\* Mutant: the final fall-through returns a label outside the taxonomy.
classify_http_outcome_unknown(status_code, errors, final_url) ==
    IF status_code # None /\ status_code[1] \in 200..299 THEN "success"
    ELSE IF errors # <<>> THEN "other_error"
    ELSE "unknown"

classify_http_outcome(status_code, errors, final_url) ==
    LET s == status_code[1]
        error_text == LowerText(JoinSpace(errors))
        byStatus ==
            IF status_code = None THEN ""
            ELSE IF s \in {401, 403} THEN "access_denied"
            ELSE IF 200 <= s /\ s < 300 THEN "success"
            ELSE IF 300 <= s /\ s < 400 THEN "redirect"
            ELSE IF 400 <= s /\ s < 500 THEN "client_error"
            ELSE IF 500 <= s /\ s < 600 THEN "server_error"
            ELSE ""
    IN  IF byStatus # "" THEN byStatus
        ELSE IF errors # <<>> THEN
            IF Contains(error_text, "timeout") THEN "timeout"
            ELSE IF Contains(error_text, "connection")
                    \/ Contains(error_text, "name or service not known")
                 THEN "connection_error"
            ELSE "other_error"
        ELSE IF final_url # <<>> THEN "success"
        ELSE "no_response"

\* Inputs of the classifier check.
StatusInputs == {None} \cup {Some(n) : n \in {100, 199, 200, 204, 299, 300, 301, 399,
                                               400, 401, 403, 404, 499, 500, 503, 599,
                                               600, 999}}
ErrorMessages == { <<"HTTPSConnectionPool">>, <<"ConnectTimeoutError">>,
                   <<"Name or service not known">>, <<"SSLError">> }
ErrorLists == {<<>>} \cup {<<m>> : m \in ErrorMessages}
                     \cup {<<m1, m2>> : m1 \in ErrorMessages, m2 \in ErrorMessages}
UrlInputs == { <<>>, <<"https://example.in/">> }

\* A derived file: absent, or a table (a set of rows).
NoFile == [exists |-> FALSE, rows |-> {}]
TableFile(rows) == [exists |-> TRUE, rows |-> rows]

\* The vantage labels compare is called with.
ComparePairs == { << <<"IN-home">>, <<"VPN-EU">> >>, << <<"IN-home">>, <<"VPN-US">> >> }

\* The cleaned feed: lines of <<domain, failure, anomaly, blocking_general>>.
FeedHeader == <<"domain", "failure", "anomaly", "blocking_general">>
FeedInit ==
    [exists |-> TRUE,
     lines |-> << << <<"old.in">>, <<>>, <<"False">>, <<"False">> >>,
                  << <<"old.in">>, <<"generic_timeout_error">>, <<"True">>, <<>> >>,
                  << <<"c.com">>, <<>>, <<"True">>, <<"True">> >> >>]

InitPipelineIdle ==
    /\ storeHeader = <<>>
    /\ storeLines = <<>>
    /\ clock = 1
    /\ pc = "idle"
    /\ run_id = <<>>
    /\ vantage = <<>>
    /\ domains_df = <<>>
    /\ idx = 0
    /\ measurements = <<>>
    /\ nRuns = 0
    /\ compFiles = [p \in ComparePairs |-> NoFile]
    /\ summaryFile = NoFile
    /\ feedFile = FeedInit
    /\ compListing = <<>>
    /\ enrichedFile = NoFile
    /\ ret = [op |-> "none", via |-> "none", local |-> <<>>, remote |-> <<>>, raised |-> "none"]

pipelineVars == <<domainList, storeHeader, storeLines, clock, pc, run_id, vantage,
                  domains_df, idx, measurements, nRuns, compFiles, summaryFile, feedFile,
                  compListing, enrichedFile, ret>>

InitClassify ==
    /\ cin \in [status_code : StatusInputs, errors : ErrorLists, final_url : UrlInputs]
    /\ cout = <<>>
    /\ net = <<>>
    /\ probeOut = <<>>
    /\ domainList = <<>>
    /\ InitPipelineIdle

Classify ==
    /\ cout = <<>>
    /\ cout' = <<classify_http_outcome(cin.status_code, cin.errors, cin.final_url)>>
    /\ UNCHANGED <<cin, net, probeOut>>
    /\ UNCHANGED pipelineVars

NextClassify == Classify

SpecClassify == InitClassify /\ [][NextClassify]_vars

(***************************************************************************)
(* C1: classify_http_outcome returns the label of the first matching rule  *)
(* of the ten-rule list, where rules 6-9 (timeout, connection_error,       *)
(* other_error, success by final URL) apply only when no status code is    *)
(* present.                                                                *)
(***************************************************************************)
TenRuleLabel(status_code, errors, final_url) ==
    LET s == status_code[1]
        has == status_code # None
        error_text == LowerText(JoinSpace(errors))
    IN  IF has /\ s \in {401, 403} THEN "access_denied"
        ELSE IF has /\ s \in 200..299 THEN "success"
        ELSE IF has /\ s \in 300..399 THEN "redirect"
        ELSE IF has /\ s \in 400..499 THEN "client_error"
        ELSE IF has /\ s \in 500..599 THEN "server_error"
        ELSE IF ~has /\ Contains(error_text, "timeout") THEN "timeout"
        ELSE IF ~has /\ (Contains(error_text, "connection")
                         \/ Contains(error_text, "name or service not known"))
             THEN "connection_error"
        ELSE IF ~has /\ error_text # <<>> THEN "other_error"
        ELSE IF ~has /\ error_text = <<>> /\ final_url # <<>> THEN "success"
        ELSE "no_response"

C1_FirstMatchingRule ==
    cout # <<>> => cout[1] = TenRuleLabel(cin.status_code, cin.errors, cin.final_url)

\* The rule list is followed whenever the status code is absent or in 200..599.
C1_HoldsOnStandardStatus ==
    (cout # <<>> /\ (cin.status_code = None \/ cin.status_code[1] \in 200..599))
    => cout[1] = TenRuleLabel(cin.status_code, cin.errors, cin.final_url)

(***************************************************************************)
(* fetch_http_https                                                        *)
(***************************************************************************)

BLOCKPAGE_PHRASES == <<
    "blocked as per the instructions received from the department of telecommunications",
    "this url has been blocked as per order of the competent authority",
    "has been blocked as per the directions received from the competent authorities" >>

\* Default of _extract_body_snippet's limit (bytes in the code, words here).
SnippetLimit == 2000

\* What one GET can do: return a response ("resp"), raise a
\* requests.exceptions.RequestException ("exc"), or raise anything else ("raise").
Resp(status, url, content, decodes) ==
    [kind |-> "resp", status |-> status, url |-> url, content |-> content,
     decodes |-> decodes, msg |-> <<>>]
Exc(msg) ==
    [kind |-> "exc", status |-> 0, url |-> <<>>, content |-> <<>>, decodes |-> TRUE, msg |-> msg]
Raise(msg) ==
    [kind |-> "raise", status |-> 0, url |-> <<>>, content |-> <<>>, decodes |-> TRUE, msg |-> msg]

Min(a, b) == IF a <= b THEN a ELSE b

_extract_body_snippet(resp) ==
    IF resp.decodes THEN SubSeq(resp.content, 1, Min(Len(resp.content), SnippetLimit))
    ELSE <<>>

\* Mutant: the block-page test is skipped when a status code was obtained.
BlockpageOverride_only_without_status(outcome, status_code, body_snippet) ==
    IF body_snippet # <<>> /\ status_code = None
       /\ \E i \in DOMAIN BLOCKPAGE_PHRASES :
              Contains(LowerText(body_snippet), BLOCKPAGE_PHRASES[i])
    THEN "blockpage_india"
    ELSE outcome

\* Lines 224-228: the block-page detection on the snippet.
BlockpageOverride(outcome, status_code, body_snippet) ==
    IF body_snippet # <<>>
       /\ \E i \in DOMAIN BLOCKPAGE_PHRASES :
              Contains(LowerText(body_snippet), BLOCKPAGE_PHRASES[i])
    THEN "blockpage_india"
    ELSE outcome

\* Mutant: the HTTPS error is forgotten once the fallback is attempted.
ProbeErrors_https_dropped(n) ==
    IF n.https.kind = "exc" /\ n.http.kind = "exc"
    THEN << <<"HTTP error:">> \o n.http.msg >>
    ELSE <<>>

\* Lines 199, 214, 221: the errors list after the two attempts.
ProbeErrors(n) ==
    (IF n.https.kind = "exc" THEN << <<"HTTPS error:">> \o n.https.msg >> ELSE <<>>)
    \o (IF n.https.kind = "exc" /\ n.http.kind = "exc"
        THEN << <<"HTTP error:">> \o n.http.msg >> ELSE <<>>)

\* str(status_code) as written to the row ("" when None).
StatusCell(status_code) ==
    IF status_code = None THEN <<>> ELSE <<ToString(status_code[1])>>

\* n is [https |-> GET result, http |-> GET result]; the http GET is issued only
\* when the https GET raised a RequestException.  raised = TRUE: an exception
\* that is not a RequestException left the function.
\* Mutant: a failed HTTPS GET is tried a second time before the fallback.
ProbeRequests_https_retried(n) ==
    IF n.https.kind = "exc" THEN <<"https://", "https://", "http://">> ELSE <<"https://">>

\* Lines 201-221: the URLs _request is called with, in order (by scheme).
ProbeRequests(n) ==
    IF n.https.kind = "exc" THEN <<"https://", "http://">> ELSE <<"https://">>

fetch_http_https(n) ==
    LET httpsResp == n.https.kind = "resp"
        httpsExc  == n.https.kind = "exc"
        httpResp  == httpsExc /\ n.http.kind = "resp"
        raised    == n.https.kind = "raise" \/ (httpsExc /\ n.http.kind = "raise")
        got       == IF httpsResp THEN n.https ELSE n.http
        status_code == IF httpsResp \/ httpResp THEN Some(got.status) ELSE None
        final_url == IF httpsResp \/ httpResp THEN got.url ELSE <<>>
        body_snippet == IF httpsResp \/ httpResp THEN _extract_body_snippet(got) ELSE <<>>
        errors == ProbeErrors(n)
        outcome == BlockpageOverride(classify_http_outcome(status_code, errors, final_url),
                                     status_code, body_snippet)
    IN  IF raised
        THEN [raised |-> TRUE, requests |-> ProbeRequests(n),
              http_final_url |-> <<>>, http_status_code |-> <<>>,
              http_outcome |-> <<>>, http_error |-> <<>>, http_body_snippet |-> <<>>]
        ELSE [raised |-> FALSE, requests |-> ProbeRequests(n),
              http_final_url |-> final_url,
              http_status_code |-> StatusCell(status_code),
              http_outcome |-> <<outcome>>,
              http_error |-> JoinBar(errors),
              http_body_snippet |-> body_snippet]

\* Inputs of the probe check.
ProbeStatuses == {200, 301, 403, 404, 503, 999}
ProbeBodies == { <<>>, <<"Welcome">>,
    <<"Blocked as per the instructions received from the Department of Telecommunications">>,
    <<"Welcome", "THIS URL HAS BEEN BLOCKED AS PER ORDER OF THE COMPETENT AUTHORITY">>,
    <<"has been blocked as per the directions received from the competent authorities">> }
ProbeMessages == ErrorMessages \cup {<<>>}
HttpsResults ==
    {Resp(s, <<"https://example.in/">>, b, d) : s \in ProbeStatuses, b \in ProbeBodies, d \in BOOLEAN}
    \cup {Exc(m) : m \in ProbeMessages} \cup {Raise(<<"UnicodeError">>)}
HttpResults ==
    {Resp(s, <<"http://example.in/">>, b, TRUE) : s \in {200, 403, 999}, b \in ProbeBodies}
    \cup {Exc(m) : m \in ProbeMessages} \cup {Raise(<<"UnicodeError">>)}

InitProbe ==
    /\ net \in [https : HttpsResults, http : HttpResults]
    /\ probeOut = <<>>
    /\ cin = <<>>
    /\ cout = <<>>
    /\ domainList = <<>>
    /\ InitPipelineIdle

Probe ==
    /\ probeOut = <<>>
    /\ probeOut' = <<fetch_http_https(net)>>
    /\ UNCHANGED <<cin, cout, net>>
    /\ UNCHANGED pipelineVars

NextProbe == Probe

SpecProbe == InitProbe /\ [][NextProbe]_vars

\* The probe returned a dict (no exception left it).
ProbeReturned == probeOut # <<>> /\ ~probeOut[1].raised

\* The attempt whose response was recorded, if any.
HttpsAnswered == net.https.kind = "resp"
HttpAnswered == net.https.kind = "exc" /\ net.http.kind = "resp"

HasBlockPhrase(text) ==
    \E i \in DOMAIN BLOCKPAGE_PHRASES : Contains(LowerText(text), BLOCKPAGE_PHRASES[i])

(***************************************************************************)
(* C2: whenever the recorded body snippet, lower-cased, contains one of    *)
(* the block-page phrases, the outcome of the HTTP probe is                *)
(* blockpage_india, whatever the status code and whichever attempt         *)
(* produced the body.                                                      *)
(***************************************************************************)
C2_BlockpageOverride ==
    (ProbeReturned /\ HasBlockPhrase(probeOut[1].http_body_snippet))
    => probeOut[1].http_outcome = <<"blockpage_india">>

\* Scenario 2: the HTTP fallback answers 200 with a block page in upper case.
C2_Witness ==
    /\ ProbeReturned
    /\ HttpAnswered
    /\ probeOut[1].http_status_code = <<"200">>
    /\ Contains(LowerText(probeOut[1].http_body_snippet), BLOCKPAGE_PHRASES[2])
    /\ ~Contains(probeOut[1].http_body_snippet, BLOCKPAGE_PHRASES[2])
    /\ probeOut[1].http_outcome = <<"blockpage_india">>

(***************************************************************************)
(* C3: every measurement row satisfies exactly one of: http_status_code is *)
(* present; http_error is non-empty; http_outcome is no_response.          *)
(***************************************************************************)
ExactlyOne(a, b, c) == (a /\ ~b /\ ~c) \/ (~a /\ b /\ ~c) \/ (~a /\ ~b /\ c)

C3_ExactlyOne ==
    ProbeReturned =>
        ExactlyOne(probeOut[1].http_status_code # <<>>,
                   probeOut[1].http_error # <<>>,
                   probeOut[1].http_outcome = <<"no_response">>)

\* Amended: at least one of status present / error non-empty holds, never
\* no_response; both hold exactly when HTTPS failed and the fallback answered.
C3_AtLeastOne ==
    ProbeReturned =>
        /\ probeOut[1].http_status_code # <<>> \/ probeOut[1].http_error # <<>>
        /\ probeOut[1].http_outcome # <<"no_response">>
        /\ (probeOut[1].http_status_code # <<>> /\ probeOut[1].http_error # <<>>)
               <=> HttpAnswered
        /\ probeOut[1].http_status_code # <<>> <=> (HttpsAnswered \/ HttpAnswered)

C3_Witness ==
    /\ ProbeReturned
    /\ HttpAnswered
    /\ probeOut[1].http_status_code # <<>>
    /\ probeOut[1].http_error # <<>>

(***************************************************************************)
(* CSV files and pandas                                                    *)
(***************************************************************************)

Range(f) == {f[i] : i \in DOMAIN f}

\* A missing value of a DataFrame; no file holds this text.
NaN == <<"#NaN">>

\* Cells pandas.read_csv reads as missing (its default na_values).
NA_VALUES == { <<>>, <<"nan">>, <<"NaN">>, <<"NA">>, <<"N/A">>, <<"None">>, <<"null">>, <<"NULL">> }

ReadCell(c) == IF c \in NA_VALUES THEN NaN ELSE c

\* str(value) of a DataFrame cell
StrOf(v) == IF v = NaN THEN <<"nan">> ELSE v

RECURSIVE LStrip(_)
LStrip(t) == IF t # <<>> /\ Head(t) = " " THEN LStrip(Tail(t)) ELSE t
RECURSIVE RStrip(_)
RStrip(t) == IF t # <<>> /\ t[Len(t)] = " " THEN RStrip(SubSeq(t, 1, Len(t) - 1)) ELSE t
\* str.strip()
Strip(t) == RStrip(LStrip(t))

\* Position of a column name in a header (headers hold no name twice).
ColIndex(header, col) == CHOOSE i \in DOMAIN header : header[i] = col

\* The cell of a line under a column of the header; "" for a short line.
CellAt(header, line, col) ==
    LET k == ColIndex(header, col) IN IF k <= Len(line) THEN line[k] ELSE <<>>

RECURSIVE ReadRow(_, _, _)
\* The first k cells of a line as a row keyed by the header's names; the cell
\* of a short line is missing.
ReadRow(header, line, k) ==
    IF k = 0 THEN <<>>
    ELSE (header[k] :> (IF k <= Len(line) THEN ReadCell(line[k]) ELSE NaN))
         @@ ReadRow(header, line, k - 1)

RECURSIVE ReadCsv(_, _)
\* pandas.read_csv: one row per line, cells taken by position under the header,
\* short lines padded with NaN.
ReadCsv(header, lines) ==
    IF lines = <<>> THEN <<>>
    ELSE <<ReadRow(header, Head(lines), Len(header))>> \o ReadCsv(header, Tail(lines))

(***************************************************************************)
(* 02_measure_connectivity.py: constants, clock, domain list               *)
(***************************************************************************)

FIELDNAMES == <<
    "run_id", "vantage", "timestamp_utc", "domain", "category", "subcategory",
    "tcp_80_ok", "tcp_80_error", "tcp_443_ok", "tcp_443_error",
    "dns_local_ok", "dns_local_ips", "dns_local_error",
    "dns_public_ok", "dns_public_ips", "dns_public_error",
    "http_final_url", "http_status_code", "http_outcome", "http_error", "http_body_snippet",
    "tls_ok", "tls_issuer", "tls_not_before", "tls_not_after", "tls_error" >>

DEFAULT_VANTAGE == <<"IN-home">>

TEST_MODE == FALSE
TEST_LIMIT == 3

\* Bounds: measure invocations in Spec and in SpecMeasure, seconds of the clock.
MaxRuns == 2
MaxMeasureRuns == 1
MaxClock == 2

\* strftime("%Y%m%dT%H%M%SZ") of the clock's seconds: fixed width, so the
\* lexicographic order of the texts is the order of the seconds.
RunIdTable == << "20251211T123401Z", "20251211T123402Z", "20251211T123403Z",
                 "20251211T123404Z", "20251211T123405Z" >>
current_run_id(now) == <<RunIdTable[now]>>

\* strftime("%Y-%m-%dT%H:%M:%SZ")
TimestampTable == << "2025-12-11T12:34:01Z", "2025-12-11T12:34:02Z", "2025-12-11T12:34:03Z",
                     "2025-12-11T12:34:04Z", "2025-12-11T12:34:05Z" >>
utc_now_iso(now) == <<TimestampTable[now]>>

DomainHeader == <<"domain", "category", "subcategory", "include_flag">>

Head_n(seq, n) == SubSeq(seq, 1, Min(Len(seq), n))

\* Mutant: the include_flag filter is compared without normalising it.
load_domains_raw_flag(lines, limit) ==
    LET df == ReadCsv(DomainHeader, lines)
        Included(r) == r["include_flag"] = <<"yes">>
        kept == SelectSeq(df, Included)
    IN  [i \in DOMAIN kept |-> [c \in {"domain", "category", "subcategory"} |-> kept[i][c]]]

\* limit is Optional[int]
load_domains(lines, limit) ==
    LET df == ReadCsv(DomainHeader, lines)
        Included(r) == LowerText(Strip(StrOf(r["include_flag"]))) = <<"yes">>
        kept == SelectSeq(df, Included)
        cut == IF limit # None THEN Head_n(kept, limit[1]) ELSE kept
    IN  [i \in DOMAIN cut |-> [c \in {"domain", "category", "subcategory"} |-> cut[i][c]]]

(***************************************************************************)
(* DNS, TCP and TLS probes                                                 *)
(***************************************************************************)

\* One resolver.resolve call: an answer, NoAnswer, or another DNSException.
Answer(addrs) == [kind |-> "answer", addrs |-> addrs, msg |-> <<>>]
NoAnswer == [kind |-> "noanswer", addrs |-> <<>>, msg |-> <<>>]
DnsExc(msg) == [kind |-> "dnsexc", addrs |-> <<>>, msg |-> msg]

RECURSIVE JoinSemi(_)
\* ";".join(addrs)
JoinSemi(addrs) ==
    IF addrs = <<>> THEN <<>>
    ELSE IF Len(addrs) = 1 THEN <<addrs[1]>>
    ELSE <<addrs[1], ";">> \o JoinSemi(Tail(addrs))

BoolCell(b) == IF b THEN <<"True">> ELSE <<"False">>

\* q is [A |-> result, AAAA |-> result]; the loop stops at the first
\* DNSException other than NoAnswer, keeping the addresses gathered so far.
_query_dns(q) ==
    LET stoppedAtA == q.A.kind = "dnsexc"
        addrs == IF stoppedAtA THEN <<>> ELSE q.A.addrs \o q.AAAA.addrs
        exc == stoppedAtA \/ q.AAAA.kind = "dnsexc"
        msg == IF stoppedAtA THEN q.A.msg ELSE q.AAAA.msg
    IN  [ok |-> IF exc THEN FALSE ELSE Len(addrs) > 0,
         ips |-> JoinSemi(addrs),
         error |-> IF exc THEN msg
                   ELSE IF addrs = <<>> THEN <<"No A/AAAA records">> ELSE <<>>]

resolve_dns(local_q, public_q) ==
    LET local == _query_dns(local_q)
        public == _query_dns(public_q)
    IN  [dns_local_ok |-> BoolCell(local.ok), dns_local_ips |-> local.ips,
         dns_local_error |-> local.error,
         dns_public_ok |-> BoolCell(public.ok), dns_public_ips |-> public.ips,
         dns_public_error |-> public.error]

\* c is <<>> when the connection is made, else the text of the exception.
check_tcp(c) == [ok |-> c = <<>>, error |-> c]

RECURSIVE _format_name(_)
\* component: sequence of <<key, value>> pairs; "k=v" joined by ", "
_format_name(component) ==
    IF component = <<>> THEN <<>>
    ELSE IF Len(component) = 1 THEN <<component[1][1], "=", component[1][2]>>
    ELSE <<component[1][1], "=", component[1][2], ",">> \o _format_name(Tail(component))

\* t is [ok, issuer, notBefore, notAfter, msg]
fetch_tls_cert(t) ==
    IF ~t.ok
    THEN [tls_ok |-> BoolCell(FALSE), tls_issuer |-> <<>>, tls_not_before |-> <<>>,
          tls_not_after |-> <<>>, tls_error |-> t.msg]
    ELSE [tls_ok |-> BoolCell(TRUE), tls_issuer |-> _format_name(t.issuer),
          tls_not_before |-> t.notBefore, tls_not_after |-> t.notAfter, tls_error |-> <<>>]

(***************************************************************************)
(* measure_domain and the rows of main()                                   *)
(***************************************************************************)

HttpKeys == {"http_final_url", "http_status_code", "http_outcome", "http_error",
             "http_body_snippet"}

\* nc: what the network does for one domain.  The result is the row, or
\* raised = TRUE when an exception left measure_domain.
measure_domain(domain, category, subcategory, rid, vant, nc, now) ==
    LET timestamp == utc_now_iso(now)
        dns_result == resolve_dns(nc.dns_local, nc.dns_public)
        tcp80 == check_tcp(nc.tcp80)
        tcp443 == check_tcp(nc.tcp443)
        fetched == fetch_http_https(nc)
        http_result == [k \in HttpKeys |-> fetched[k]]
        tls_result == fetch_tls_cert(nc.tls)
        row == [run_id |-> rid, vantage |-> vant, timestamp_utc |-> timestamp,
                domain |-> domain, category |-> category, subcategory |-> subcategory,
                tcp_80_ok |-> BoolCell(tcp80.ok), tcp_80_error |-> tcp80.error,
                tcp_443_ok |-> BoolCell(tcp443.ok), tcp_443_error |-> tcp443.error]
    IN  [raised |-> fetched.raised,
         msg |-> IF fetched.raised
                 THEN (IF nc.https.kind = "raise" THEN nc.https.msg ELSE nc.http.msg)
                 ELSE <<>>,
         row |-> tls_result @@ http_result @@ dns_result @@ row]

\* Mutant: the TLS error field of the row is left empty.
PipelineErrorRow_tls_error_empty(domain, category, subcategory, rid, vant, exc, now) ==
    LET err == <<"Pipeline error:">> \o exc
    IN  [run_id |-> rid, vantage |-> vant, timestamp_utc |-> utc_now_iso(now),
         domain |-> domain, category |-> category, subcategory |-> subcategory,
         dns_local_ok |-> BoolCell(FALSE), dns_local_ips |-> <<>>, dns_local_error |-> err,
         dns_public_ok |-> BoolCell(FALSE), dns_public_ips |-> <<>>, dns_public_error |-> err,
         tcp_80_ok |-> BoolCell(FALSE), tcp_80_error |-> err,
         tcp_443_ok |-> BoolCell(FALSE), tcp_443_error |-> err,
         http_final_url |-> <<>>, http_status_code |-> <<>>,
         http_outcome |-> <<"other_error">>, http_error |-> err,
         http_body_snippet |-> <<>>,
         tls_ok |-> BoolCell(FALSE), tls_issuer |-> <<>>, tls_not_before |-> <<>>,
         tls_not_after |-> <<>>, tls_error |-> <<>>]

\* Lines 392-421: the row of a domain whose measurement raised.
PipelineErrorRow(domain, category, subcategory, rid, vant, exc, now) ==
    LET err == <<"Pipeline error:">> \o exc
    IN  [run_id |-> rid, vantage |-> vant, timestamp_utc |-> utc_now_iso(now),
         domain |-> domain, category |-> category, subcategory |-> subcategory,
         dns_local_ok |-> BoolCell(FALSE), dns_local_ips |-> <<>>, dns_local_error |-> err,
         dns_public_ok |-> BoolCell(FALSE), dns_public_ips |-> <<>>, dns_public_error |-> err,
         tcp_80_ok |-> BoolCell(FALSE), tcp_80_error |-> err,
         tcp_443_ok |-> BoolCell(FALSE), tcp_443_error |-> err,
         http_final_url |-> <<>>, http_status_code |-> <<>>,
         http_outcome |-> <<"other_error">>, http_error |-> err,
         http_body_snippet |-> <<>>,
         tls_ok |-> BoolCell(FALSE), tls_issuer |-> <<>>, tls_not_before |-> <<>>,
         tls_not_after |-> <<>>, tls_error |-> err]

\* Lines 383-422: the body of the loop for one domain of domains_df.
LoopRow(dfrow, rid, vant, nc, now) ==
    LET domain == Strip(StrOf(dfrow["domain"]))
        category == Strip(StrOf(dfrow["category"]))
        subcategory == Strip(StrOf(dfrow["subcategory"]))
        m == measure_domain(domain, category, subcategory, rid, vant, nc, now)
    IN  IF m.raised
        THEN PipelineErrorRow(domain, category, subcategory, rid, vant, m.msg, now)
        ELSE m.row

(***************************************************************************)
(* write_rows and migrate_output_columns                                   *)
(***************************************************************************)

\* csv.DictWriter: the cells of a dict in the order of fieldnames.
DictLine(row, fieldnames) == [i \in DOMAIN fieldnames |-> row[fieldnames[i]]]

\* The file (header, lines) after write_rows; header = <<>> is a missing or
\* empty file.
write_rows(header, lines, rows, fieldnames) ==
    IF rows = <<>> THEN [header |-> header, lines |-> lines]
    ELSE LET needs_header == header = <<>>
         IN  [header |-> IF needs_header THEN fieldnames ELSE header,
              lines |-> lines \o [i \in DOMAIN rows |-> DictLine(rows[i], fieldnames)]]

MigrationDefaults == [vantage |-> <<"unknown">>, http_body_snippet |-> <<>>]

\* csv.DictReader: value of column fn in a line ("" for a short line, None there).
DictReaderGet(header, line, fn, default) ==
    IF fn \in Range(header) THEN CellAt(header, line, fn) ELSE default

\* The file after migrate_output_columns.
migrate_output_columns(header, lines, fieldnames, defaults) ==
    IF header = <<>> THEN [header |-> header, lines |-> lines]
    ELSE LET missing == SelectSeq(fieldnames, LAMBDA fn : fn \notin Range(header))
         IN  IF missing = <<>> THEN [header |-> header, lines |-> lines]
             ELSE [header |-> fieldnames,
                   lines |-> [i \in DOMAIN lines |->
                       [k \in DOMAIN fieldnames |->
                           DictReaderGet(header, lines[i], fieldnames[k],
                               IF fieldnames[k] \in DOMAIN defaults
                               THEN defaults[fieldnames[k]] ELSE <<>>)]]]

(***************************************************************************)
(* Run aggregator: 25_compare_vantages.py and 20_merge_local_and_ooni.py   *)
(***************************************************************************)

\* Order of two run_id cells as pandas compares them (str order); a text that
\* is no run id of the table sorts before every run id.
RunRank(cell) ==
    IF \E i \in DOMAIN RunIdTable : cell = <<RunIdTable[i]>>
    THEN CHOOSE i \in DOMAIN RunIdTable : cell = <<RunIdTable[i]>>
    ELSE 0

\* Series.max(): the greatest non-missing value, NaN when there is none.
SeriesMax(cells) ==
    LET present == {c \in Range(cells) : c # NaN}
    IN  IF present = {} THEN NaN
        ELSE CHOOSE c \in present : \A d \in present : RunRank(d) <= RunRank(c)

Column(df, col) == [i \in DOMAIN df |-> df[i][col]]

Count(cells, v) == Cardinality({i \in DOMAIN cells : cells[i] = v})
FirstIndex(cells, v) == CHOOSE i \in DOMAIN cells : cells[i] = v /\ \A j \in 1..(i - 1) : cells[j] # v

\* most_common: the most frequent non-missing value, the first met among
\* equally frequent ones, "" when there is none.
most_common(cells) ==
    LET present == {c \in Range(cells) : c # NaN}
        top == {c \in present : \A d \in present : Count(cells, d) <= Count(cells, c)}
    IN  IF present = {} THEN <<>>
        ELSE CHOOSE c \in top : \A d \in top : FirstIndex(cells, c) <= FirstIndex(cells, d)

\* Mutant: the latest run is taken over the whole store, not over the vantage.
load_latest_for_vantage_global_max(df, vant) ==
    LET df_v == SelectSeq(df, LAMBDA r : r["vantage"] = vant)
        latest_run == SeriesMax(Column(df, "run_id"))
        df_run == SelectSeq(df_v, LAMBDA r : r["run_id"] # NaN /\ r["run_id"] = latest_run)
    IN  [raised |-> df_v = <<>>, rows |-> df_run]

\* Mutant: an empty selection is returned instead of raising.
load_latest_for_vantage_no_raise(df, vant) ==
    LET df_v == SelectSeq(df, LAMBDA r : r["vantage"] = vant)
        latest_run == SeriesMax(Column(df_v, "run_id"))
        df_run == SelectSeq(df_v, LAMBDA r : r["run_id"] # NaN /\ r["run_id"] = latest_run)
    IN  [raised |-> FALSE, rows |-> df_run]

\* raised = TRUE is the ValueError of lines 27 and 31.
load_latest_for_vantage(df, vant) ==
    LET df_v == SelectSeq(df, LAMBDA r : r["vantage"] = vant)
        latest_run == SeriesMax(Column(df_v, "run_id"))
        df_run == SelectSeq(df_v, LAMBDA r : r["run_id"] # NaN /\ r["run_id"] = latest_run)
    IN  IF df_v = <<>> THEN [raised |-> TRUE, rows |-> <<>>]
        ELSE IF df_run = <<>> THEN [raised |-> TRUE, rows |-> <<>>]
        ELSE [raised |-> FALSE, rows |-> df_run]

\* DataFrame.groupby(keys): the groups of the rows none of whose keys is missing.
GroupKeys(df, keys) ==
    { [k \in keys |-> df[i][k]] : i \in {j \in DOMAIN df : \A k \in keys : df[j][k] # NaN} }
GroupRows(df, key) == SelectSeq(df, LAMBDA r : \A k \in DOMAIN key : r[k] = key[k])

AggKeys == {"domain", "category", "subcategory"}

\* The aggregate as a table: a set of rows (pandas orders them by key).
aggregate_vantage(df_run) ==
    { LET g == GroupRows(df_run, key)
      IN  [domain |-> key["domain"], category |-> key["category"],
           subcategory |-> key["subcategory"],
           http_outcome |-> most_common(Column(g, "http_outcome")),
           http_status_code |-> most_common(Column(g, "http_status_code")),
           blockpage_flag |-> BoolCell(\E i \in DOMAIN g :
                                   g[i]["http_outcome"] = <<"blockpage_india">>)]
      : key \in GroupKeys(df_run, AggKeys) }

\* 25_compare_vantages.py is_success
is_success(outcome) == LowerText(StrOf(outcome)) \in { <<"success">>, <<"redirect">> }

\* bool(value) of a flag cell: only False is falsy (bool(nan) is True).
Truthy(cell) == cell # <<"False">>

\* Mutant: the test for a local failure with a working remote comes before the
\* block-page test and does not look at the local block-page flag.
compare_classify_row_blocked_first(row) ==
    LET local_success == is_success(LowerText(StrOf(row.local_http_outcome)))
        remote_success == is_success(LowerText(StrOf(row.remote_http_outcome)))
        local_block == Truthy(row.local_blockpage_flag)
    IN  IF local_success /\ remote_success THEN "both_success"
        ELSE IF ~local_success /\ remote_success THEN "india_blocked_remote_ok"
        ELSE IF local_block /\ remote_success THEN "india_blockpage_remote_ok"
        ELSE IF local_success /\ ~remote_success THEN "remote_blocked_india_ok"
        ELSE "both_bad"

\* Mutant: the remote block-page test comes before the remote failure test.
compare_classify_row_remote_block_first(row) ==
    LET local_success == is_success(LowerText(StrOf(row.local_http_outcome)))
        remote_success == is_success(LowerText(StrOf(row.remote_http_outcome)))
        local_block == Truthy(row.local_blockpage_flag)
        remote_block == Truthy(row.remote_blockpage_flag)
    IN  IF local_success /\ remote_success THEN "both_success"
        ELSE IF local_block /\ remote_success THEN "india_blockpage_remote_ok"
        ELSE IF ~local_success /\ remote_success /\ ~local_block THEN "india_blocked_remote_ok"
        ELSE IF remote_block /\ local_success THEN "remote_blockpage_india_ok"
        ELSE IF local_success /\ ~remote_success THEN "remote_blocked_india_ok"
        ELSE "both_bad"

\* 25_compare_vantages.py classify_row
compare_classify_row(row) ==
    LET local_success == is_success(LowerText(StrOf(row.local_http_outcome)))
        remote_success == is_success(LowerText(StrOf(row.remote_http_outcome)))
        local_block == Truthy(row.local_blockpage_flag)
        remote_block == Truthy(row.remote_blockpage_flag)
    IN  IF local_success /\ remote_success THEN "both_success"
        ELSE IF local_block /\ remote_success THEN "india_blockpage_remote_ok"
        ELSE IF ~local_success /\ remote_success /\ ~local_block THEN "india_blocked_remote_ok"
        ELSE IF local_success /\ ~remote_success THEN "remote_blocked_india_ok"
        ELSE IF ~local_success /\ ~remote_success THEN "both_bad"
        ELSE IF remote_block /\ local_success THEN "remote_blockpage_india_ok"
        ELSE "other"

\* Mutant: an inner join, which drops a local domain without remote row.
LeftJoin_inner(local_agg, remote_agg) ==
    { [domain |-> l.domain, category |-> l.category, subcategory |-> l.subcategory,
       local_http_outcome |-> l.http_outcome, local_status_code |-> l.http_status_code,
       local_blockpage_flag |-> l.blockpage_flag,
       category_remote |-> r.category, subcategory_remote |-> r.subcategory,
       remote_http_outcome |-> r.http_outcome, remote_status_code |-> r.http_status_code,
       remote_blockpage_flag |-> r.blockpage_flag]
      : <<l, r>> \in {lr \in local_agg \X remote_agg : lr[1].domain = lr[2].domain} }

\* local_agg.merge(remote_agg, on="domain", how="left", suffixes=("", "_remote"))
LeftJoin(local_agg, remote_agg) ==
    LET Joined(l, r) ==
            [domain |-> l.domain, category |-> l.category, subcategory |-> l.subcategory,
             local_http_outcome |-> l.http_outcome, local_status_code |-> l.http_status_code,
             local_blockpage_flag |-> l.blockpage_flag,
             category_remote |-> r.category, subcategory_remote |-> r.subcategory,
             remote_http_outcome |-> r.http_outcome, remote_status_code |-> r.http_status_code,
             remote_blockpage_flag |-> r.blockpage_flag]
        Missing == [domain |-> NaN, category |-> NaN, subcategory |-> NaN,
                    http_outcome |-> NaN, http_status_code |-> NaN, blockpage_flag |-> NaN]
        Matches(l) == {r \in remote_agg : r.domain = l.domain}
    IN  UNION { IF Matches(l) = {} THEN {Joined(l, Missing)}
                ELSE {Joined(l, r) : r \in Matches(l)} : l \in local_agg }

\* compare_vantages: raised is "none", "FileNotFoundError" or "ValueError".
compare_vantages(header, lines, local_vantage, remote_vantage) ==
    LET df == ReadCsv(header, lines)
        local_df == load_latest_for_vantage(df, local_vantage)
        remote_df == load_latest_for_vantage(df, remote_vantage)
        merged == LeftJoin(aggregate_vantage(local_df.rows), aggregate_vantage(remote_df.rows))
    IN  IF header = <<>> THEN [raised |-> "FileNotFoundError", rows |-> {}]
        ELSE IF "vantage" \notin Range(header) THEN [raised |-> "ValueError", rows |-> {}]
        ELSE IF local_df.raised \/ remote_df.raised THEN [raised |-> "ValueError", rows |-> {}]
        ELSE [raised |-> "none",
              rows |-> { [vantage_diff_flag |-> <<compare_classify_row(m)>>] @@ m : m \in merged }]

VANTAGE_FILTER == <<"IN-home">>

\* 20_merge_local_and_ooni.py load_local_summary
load_local_summary(header, lines) ==
    LET df == ReadCsv(header, lines)
        df_v == SelectSeq(df, LAMBDA r : r["vantage"] = VANTAGE_FILTER)
        latest_run == SeriesMax(Column(df_v, "run_id"))
        df_run == SelectSeq(df_v, LAMBDA r : r["run_id"] # NaN /\ r["run_id"] = latest_run)
    IN  IF header = <<>> THEN [raised |-> "FileNotFoundError", rows |-> {}, used |-> <<>>]
        ELSE IF "vantage" \notin Range(header)
             THEN [raised |-> "ValueError", rows |-> {}, used |-> <<>>]
        ELSE IF df_v = <<>> \/ df_run = <<>>
             THEN [raised |-> "ValueError", rows |-> {}, used |-> <<>>]
        ELSE [raised |-> "none",
              used |-> df_run,
              rows |-> { LET g == GroupRows(df_run, key)
                         IN  [domain |-> key["domain"], category |-> key["category"],
                              subcategory |-> key["subcategory"],
                              local_http_outcome |-> most_common(Column(g, "http_outcome")),
                              local_tls_issuer |-> most_common(Column(g, "tls_issuer"))]
                         : key \in GroupKeys(df_run, AggKeys) }]

\* 20_merge_local_and_ooni.py _to_bool, on a cell read by pandas
_to_bool(val) ==
    IF val = NaN THEN FALSE
    ELSE LowerText(Strip(StrOf(val))) \notin { <<>>, <<"false">>, <<"0">>, <<"none">>, <<"nan">> }

\* 20_merge_local_and_ooni.py load_ooni_summary; a rate is the fraction num/den.
load_ooni_summary(feed) ==
    LET df == ReadCsv(FeedHeader, feed.lines)
        Fail(r) == _to_bool(r["failure"]) \/ _to_bool(r["anomaly"])
                   \/ _to_bool(r["blocking_general"])
        Total(d) == Cardinality({i \in DOMAIN df : df[i]["domain"] = d})
        Failures(d) == Cardinality({i \in DOMAIN df : df[i]["domain"] = d /\ Fail(df[i])})
    IN  IF ~feed.exists THEN [raised |-> "FileNotFoundError", rows |-> {}]
        ELSE IF df = <<>> THEN [raised |-> "ValueError", rows |-> {}]
        ELSE [raised |-> "none",
              rows |-> { [domain |-> key["domain"],
                          ooni_total_measurements |-> Total(key["domain"]),
                          ooni_failure_count |-> Failures(key["domain"]),
                          ooni_failure_rate |-> [num |-> Failures(key["domain"]),
                                                 den |-> Total(key["domain"])]]
                         : key \in GroupKeys(df, {"domain"}) }]

\* Mutant: the failure rate of a domain without feed rows is left missing.
merge_and_save_rate_not_filled(local_rows, ooni_rows) ==
    LET Matches(l) == {o \in ooni_rows : o.domain = l.domain}
        Filled == [ooni_total_measurements |-> 0, ooni_failure_count |-> 0,
                   ooni_failure_rate |-> [num |-> 0, den |-> 0]]
        Ooni(o) == [ooni_total_measurements |-> o.ooni_total_measurements,
                    ooni_failure_count |-> o.ooni_failure_count,
                    ooni_failure_rate |-> o.ooni_failure_rate]
    IN  UNION { IF Matches(l) = {} THEN {l @@ Filled}
                ELSE {l @@ Ooni(o) : o \in Matches(l)} : l \in local_rows }

\* 20_merge_local_and_ooni.py merge_and_save: the rows written to the summary.
merge_and_save(local_rows, ooni_rows) ==
    LET Matches(l) == {o \in ooni_rows : o.domain = l.domain}
        Filled == [ooni_total_measurements |-> 0, ooni_failure_count |-> 0,
                   ooni_failure_rate |-> [num |-> 0, den |-> 1]]
        Ooni(o) == [ooni_total_measurements |-> o.ooni_total_measurements,
                    ooni_failure_count |-> o.ooni_failure_count,
                    ooni_failure_rate |-> o.ooni_failure_rate]
    IN  UNION { IF Matches(l) = {} THEN {l @@ Filled}
                ELSE {l @@ Ooni(o) : o \in Matches(l)} : l \in local_rows }

(***************************************************************************)
(* 30_classify_domains.py                                                  *)
(***************************************************************************)

\* A failure rate is the fraction num/den; den = 0 stands for the float NaN,
\* and a comparison with NaN is false.
RateIsNaN(r) == r.den = 0
RateGe(r, n, d) == ~RateIsNaN(r) /\ r.num * d >= n * r.den
RateLt(r, n, d) == ~RateIsNaN(r) /\ r.num * d < n * r.den
RateGt0(r) == ~RateIsNaN(r) /\ r.num > 0
RateEq0(r) == ~RateIsNaN(r) /\ r.num = 0

\* `value or default` on a cell read by pandas: NaN is truthy, a text cell is
\* never empty.
OrDefault(cell, default) == IF cell = <<>> THEN default ELSE cell

BANNED_APPS == { <<"tiktok.com">>, <<"telegram.org">>, <<"snapchat.com">>, <<"xvideos.com">> }

\* Mutant: rule 3 is tried before rule 2.
censorship_classify_row_rights_first(row, blockpage_flags) ==
    LET category == StrOf(OrDefault(row.category, <<>>))
        subcategory == StrOf(OrDefault(row.subcategory, <<>>))
        domain == StrOf(OrDefault(row.domain, <<>>))
        local_outcome == LowerText(StrOf(OrDefault(row.local_http_outcome, <<>>)))
        ooni_rate == row.ooni_failure_rate
        vantage_flag == StrOf(OrDefault(row.vantage_diff_flag, <<"unknown">>))
        has_blockpage == domain \in blockpage_flags
    IN  IF /\ category = <<"Social & Streaming">>
           /\ \/ Contains(LowerText(subcategory), "adult")
              \/ Contains(LowerText(subcategory), "porn")
              \/ Contains(LowerText(subcategory), "torrent")
           /\ \/ RateGe(ooni_rate, 9, 10)
              \/ local_outcome = <<"blockpage_india">>
              \/ has_blockpage
              \/ vantage_flag = <<"india_blockpage_remote_ok">>
        THEN "policy_blocked"
        ELSE IF /\ category = <<"Civil Society & NGOs">>
                /\ \/ RateGt0(ooni_rate)
                   \/ vantage_flag \in { <<"india_blocked_remote_ok">>,
                                         <<"india_blockpage_remote_ok">> }
                   \/ has_blockpage
        THEN "rights_org_suspect"
        ELSE IF domain \in BANNED_APPS /\ RateGe(ooni_rate, 1, 5) /\ RateLt(ooni_rate, 9, 10)
        THEN "app_ban_partial"
        ELSE IF /\ StartsWith(category, "Government")
                /\ local_outcome \in { <<"timeout">>, <<"connection_error">> }
                /\ RateEq0(ooni_rate)
        THEN "infra_flaky"
        ELSE "normal"

\* Mutant: a block page seen for any domain counts for every domain.
censorship_classify_row_any_blockpage(row, blockpage_flags) ==
    LET category == StrOf(OrDefault(row.category, <<>>))
        subcategory == StrOf(OrDefault(row.subcategory, <<>>))
        domain == StrOf(OrDefault(row.domain, <<>>))
        local_outcome == LowerText(StrOf(OrDefault(row.local_http_outcome, <<>>)))
        ooni_rate == row.ooni_failure_rate
        vantage_flag == StrOf(OrDefault(row.vantage_diff_flag, <<"unknown">>))
        has_blockpage == blockpage_flags # {}
    IN  IF /\ category = <<"Social & Streaming">>
           /\ \/ Contains(LowerText(subcategory), "adult")
              \/ Contains(LowerText(subcategory), "porn")
              \/ Contains(LowerText(subcategory), "torrent")
           /\ \/ RateGe(ooni_rate, 9, 10)
              \/ local_outcome = <<"blockpage_india">>
              \/ has_blockpage
              \/ vantage_flag = <<"india_blockpage_remote_ok">>
        THEN "policy_blocked"
        ELSE IF domain \in BANNED_APPS /\ RateGe(ooni_rate, 1, 5) /\ RateLt(ooni_rate, 9, 10)
        THEN "app_ban_partial"
        ELSE IF /\ category = <<"Civil Society & NGOs">>
                /\ \/ RateGt0(ooni_rate)
                   \/ vantage_flag \in { <<"india_blocked_remote_ok">>,
                                         <<"india_blockpage_remote_ok">> }
                   \/ has_blockpage
        THEN "rights_org_suspect"
        ELSE IF /\ StartsWith(category, "Government")
                /\ local_outcome \in { <<"timeout">>, <<"connection_error">> }
                /\ RateEq0(ooni_rate)
        THEN "infra_flaky"
        ELSE "normal"

\* classify_row(row, blockpage_flags) of 30_classify_domains.py; blockpage_flags
\* is the index of the Series, a set of domain names.
censorship_classify_row(row, blockpage_flags) ==
    LET category == StrOf(OrDefault(row.category, <<>>))
        subcategory == StrOf(OrDefault(row.subcategory, <<>>))
        domain == StrOf(OrDefault(row.domain, <<>>))
        local_outcome == LowerText(StrOf(OrDefault(row.local_http_outcome, <<>>)))
        ooni_rate == row.ooni_failure_rate
        vantage_flag == StrOf(OrDefault(row.vantage_diff_flag, <<"unknown">>))
        has_blockpage == domain \in blockpage_flags
    IN  IF /\ category = <<"Social & Streaming">>
           /\ \/ Contains(LowerText(subcategory), "adult")
              \/ Contains(LowerText(subcategory), "porn")
              \/ Contains(LowerText(subcategory), "torrent")
           /\ \/ RateGe(ooni_rate, 9, 10)
              \/ local_outcome = <<"blockpage_india">>
              \/ has_blockpage
              \/ vantage_flag = <<"india_blockpage_remote_ok">>
        THEN "policy_blocked"
        ELSE IF domain \in BANNED_APPS /\ RateGe(ooni_rate, 1, 5) /\ RateLt(ooni_rate, 9, 10)
        THEN "app_ban_partial"
        ELSE IF /\ category = <<"Civil Society & NGOs">>
                /\ \/ RateGt0(ooni_rate)
                   \/ vantage_flag \in { <<"india_blocked_remote_ok">>,
                                         <<"india_blockpage_remote_ok">> }
                   \/ has_blockpage
        THEN "rights_org_suspect"
        ELSE IF /\ StartsWith(category, "Government")
                /\ local_outcome \in { <<"timeout">>, <<"connection_error">> }
                /\ RateEq0(ooni_rate)
        THEN "infra_flaky"
        ELSE "normal"

\* pd.read_csv of a file written by DataFrame.to_csv: a text cell that is
\* empty or spells a missing value comes back as NaN.
ReadTable(rows, textCols) ==
    { [c \in DOMAIN r |-> IF c \in textCols THEN ReadCell(r[c]) ELSE r[c]] : r \in rows }

SummaryTextCols == {"domain", "category", "subcategory", "local_http_outcome", "local_tls_issuer"}

\* 30_classify_domains.py load_summary
load_summary(file) ==
    LET df == ReadTable(file.rows, SummaryTextCols)
        Fillna0(r) == [r EXCEPT !.ooni_failure_rate =
                                    IF RateIsNaN(@) THEN [num |-> 0, den |-> 1] ELSE @]
    IN  IF ~file.exists THEN [raised |-> "FileNotFoundError", rows |-> {}]
        ELSE IF df = {} THEN [raised |-> "ValueError", rows |-> {}]
        ELSE [raised |-> "none", rows |-> {Fillna0(r) : r \in df}]

\* Mutant: the comparison file is looked for only while no enriched summary
\* has been written.
find_vantage_file_once(listing, local_vantage) ==
    LET hits == SelectSeq(listing, LAMBDA p : p[1] = local_vantage)
    IN  IF hits = <<>> \/ enrichedFile.exists THEN None ELSE Some(hits[1])

\* find_vantage_file: the first file the directory lists for local_vantage.
find_vantage_file(listing, local_vantage) ==
    LET hits == SelectSeq(listing, LAMBDA p : p[1] = local_vantage)
    IN  IF hits = <<>> THEN None ELSE Some(hits[1])

\* load_vantage_diff: None, or the columns domain and vantage_diff_flag.
load_vantage_diff(files, path) ==
    IF path = None THEN [none |-> TRUE, rows |-> {}]
    ELSE IF ~files[path[1]].exists THEN [none |-> TRUE, rows |-> {}]
    ELSE IF files[path[1]].rows = {} THEN [none |-> TRUE, rows |-> {}]
    ELSE [none |-> FALSE,
          rows |-> { [domain |-> ReadCell(r.domain),
                      vantage_diff_flag |-> ReadCell(r.vantage_diff_flag)]
                     : r \in files[path[1]].rows }]

\* Mutant: only the latest run of local_vantage is searched for block pages.
load_blockpage_flags_latest_run(header, lines, local_vantage) ==
    LET df == ReadCsv(header, lines)
        latest == load_latest_for_vantage(df, local_vantage).rows
    IN  IF header = <<>> THEN {}
        ELSE IF df = <<>> \/ "http_outcome" \notin Range(header) THEN {}
        ELSE {latest[i]["domain"] :
                  i \in {j \in DOMAIN latest :
                             LowerText(latest[j]["http_outcome"]) = <<"blockpage_india">>}}
             \ {NaN}

\* load_blockpage_flags: the domains with a blockpage_india row of
\* local_vantage anywhere in the store.
load_blockpage_flags(header, lines, local_vantage) ==
    LET df == ReadCsv(header, lines)
        Mask(r) == /\ LowerText(r["http_outcome"]) = <<"blockpage_india">>
                   /\ "vantage" \in Range(header) => r["vantage"] = local_vantage
    IN  IF header = <<>> THEN {}
        ELSE IF df = <<>> \/ "http_outcome" \notin Range(header) THEN {}
        ELSE {df[i]["domain"] : i \in {j \in DOMAIN df : Mask(df[j])}} \ {NaN}

\* enrich: the rows written to the enriched summary.
enrich(file, header, lines, files, local_vantage, comp_path) ==
    LET summary == load_summary(file)
        block_flags == load_blockpage_flags(header, lines, local_vantage)
        comp_df == load_vantage_diff(files, comp_path)
        Matches(r) == {c \in comp_df.rows : c.domain = r.domain}
        Flagged(r, flag) == [vantage_diff_flag |-> flag] @@ r
        merged == IF comp_df.none THEN {Flagged(r, <<"unknown">>) : r \in summary.rows}
                  ELSE UNION { IF Matches(r) = {} THEN {Flagged(r, <<"unknown">>)}
                               ELSE {Flagged(r, IF c.vantage_diff_flag = NaN
                                                THEN <<"unknown">> ELSE c.vantage_diff_flag)
                                     : c \in Matches(r)}
                               : r \in summary.rows }
    IN  IF summary.raised # "none" THEN [raised |-> summary.raised, rows |-> {}]
        ELSE [raised |-> "none",
              rows |-> { [censorship_class |-> <<censorship_classify_row(r, block_flags)>>] @@ r
                         : r \in merged }]

(***************************************************************************)
(* main() of 02_measure_connectivity.py as a process                       *)
(***************************************************************************)

\* Line 369.  vantage_override is Optional[str]; argv is sys.argv.
ResolveVantage(vantage_override, argv) ==
    IF vantage_override # None THEN vantage_override[1]
    ELSE IF Len(argv) > 1 THEN argv[2] ELSE DEFAULT_VANTAGE

\* The ways main() is called: by main.py's run_measure(args.vantage), whose
\* --vantage takes any text (default IN-home), or as a script with sys.argv.
MeasureCalls ==
    { [vantage_override |-> Some(v), argv |-> <<"main.py">>] :
          v \in { <<"IN-home">>, <<"VPN-EU">>, <<>> } }
    \cup { [vantage_override |-> None, argv |-> a] :
          a \in { <<"02_measure_connectivity.py">>,
                  <<"02_measure_connectivity.py", <<"VPN-EU">> >> } }

\* What the network does for one domain during one run.
TlsGood == [ok |-> TRUE, issuer |-> << <<"organizationName", "Let's Encrypt">> >>,
            notBefore |-> <<"Dec  1 2025">>, notAfter |-> <<"Mar  1 2026">>, msg |-> <<>>]
TlsBad == [ok |-> FALSE, issuer |-> <<>>, notBefore |-> <<>>, notAfter |-> <<>>,
           msg |-> <<"SSLError">>]
DnsGood == [A |-> Answer(<<"93.184.216.34">>), AAAA |-> NoAnswer]
DnsBad == [A |-> DnsExc(<<"NXDOMAIN">>), AAAA |-> NoAnswer]

NetCases ==
    { \* reachable over HTTPS
      [https |-> Resp(200, <<"https://example.in/">>, <<"Welcome">>, TRUE),
       http |-> Exc(<<>>), dns_local |-> DnsGood, dns_public |-> DnsGood,
       tcp80 |-> <<>>, tcp443 |-> <<>>, tls |-> TlsGood],
      \* HTTPS reset, block page served over HTTP with status 200
      [https |-> Exc(<<"HTTPSConnectionPool">>),
       http |-> Resp(200, <<"http://example.in/">>,
                     <<"THIS URL HAS BEEN BLOCKED AS PER ORDER OF THE COMPETENT AUTHORITY">>, TRUE),
       dns_local |-> DnsGood, dns_public |-> DnsGood,
       tcp80 |-> <<>>, tcp443 |-> <<"ConnectionResetError">>, tls |-> TlsBad],
      \* the server refuses over HTTPS
      [https |-> Resp(403, <<"https://example.in/">>, <<"Forbidden">>, TRUE),
       http |-> Exc(<<>>), dns_local |-> DnsGood, dns_public |-> DnsGood,
       tcp80 |-> <<>>, tcp443 |-> <<>>, tls |-> TlsGood],
      \* nothing answers
      [https |-> Exc(<<"ConnectTimeoutError">>), http |-> Exc(<<"ConnectTimeoutError">>),
       dns_local |-> DnsBad, dns_public |-> DnsGood,
       tcp80 |-> <<"timeout">>, tcp443 |-> <<"timeout">>, tls |-> TlsBad],
      \* an exception that is no RequestException leaves fetch_http_https
      [https |-> Raise(<<"UnicodeError">>), http |-> Exc(<<>>),
       dns_local |-> DnsBad, dns_public |-> DnsBad,
       tcp80 |-> <<"gaierror">>, tcp443 |-> <<"gaierror">>, tls |-> TlsBad] }

\* data/domains.csv contents the runs are checked on.
DomainLine(domain, category, subcategory, include_flag) ==
    <<domain, category, subcategory, include_flag>>
DomainLists ==
    { << DomainLine(<<"a.gov.in">>, <<"Government">>, <<"Telecom">>, <<"yes">>),
         DomainLine(<<"b.org">>, <<"Civil Society & NGOs">>, <<>>, <<" ", "YES", " ">>),
         DomainLine(<<"c.com">>, <<"Social & Streaming">>, <<"adult">>, <<"no">>) >>,
      << DomainLine(<<"c.com">>, <<"Social & Streaming">>, <<"adult">>, <<>>),
         DomainLine(<<" ", "a.gov.in">>, <<"Government">>, <<"Telecom">>, <<"Yes">>) >> }

\* The cases and calls the whole pipeline (Spec) is run on.
PipelineNetCases ==
    {nc \in NetCases : fetch_http_https(nc).http_outcome \in
                           { <<"success">>, <<"blockpage_india">>, <<"timeout">> }}
\* b.org has no summary row (its subcategory is empty), so one answer is
\* enough for it.
PipelineNetCasesFor(domain) ==
    IF domain = <<"b.org">>
    THEN {nc \in PipelineNetCases : fetch_http_https(nc).http_outcome = <<"success">>}
    ELSE PipelineNetCases
PipelineCalls ==
    {c \in MeasureCalls : ResolveVantage(c.vantage_override, c.argv) # <<>>}
PipelineDomainList ==
    << DomainLine(<<"a.gov.in">>, <<"Government">>, <<"Telecom">>, <<"yes">>),
       DomainLine(<<"b.org">>, <<"Civil Society & NGOs">>, <<>>, <<" ", "YES", " ">>),
       DomainLine(<<"c.com">>, <<"Social & Streaming">>, <<"adult">>, <<"no">>) >>

\* Stores a run can find: none, one of the current schema, and older ones.
OldCell(col) ==
    CASE col = "run_id"        -> <<"20251210T090000Z">>
      [] col = "vantage"       -> <<"IN-home">>
      [] col = "timestamp_utc" -> <<"2025-12-10T09:00:00Z">>
      [] col = "domain"        -> <<"old.in">>
      [] col = "category"      -> <<"Government">>
      [] col = "subcategory"   -> <<"Telecom">>
      [] col = "http_outcome"  -> <<"success">>
      [] col = "http_status_code" -> <<"200">>
      [] col = "notes"         -> <<"checked by hand">>
      [] OTHER                 -> <<>>
OldLine(header) == [i \in DOMAIN header |-> OldCell(header[i])]
Without(header, cols) == SelectSeq(header, LAMBDA c : c \notin cols)
StoreHeaders ==
    { <<>>,
      FIELDNAMES,
      Without(FIELDNAMES, {"run_id", "vantage", "http_body_snippet"}),
      Without(FIELDNAMES, {"vantage"}) \o <<"notes">>,
      <<"vantage", "run_id">> \o Without(FIELDNAMES, {"run_id", "vantage"}) }

MeasureStart(call, maxRuns) ==
    /\ pc = "idle"
    /\ nRuns < maxRuns
    /\ \E now \in clock..MaxClock :
        /\ clock' = now
        /\ run_id' = current_run_id(now)
    /\ vantage' = ResolveVantage(call.vantage_override, call.argv)
    /\ domains_df' = load_domains(domainList, IF TEST_MODE THEN Some(TEST_LIMIT) ELSE None)
    /\ LET migrated == migrate_output_columns(storeHeader, storeLines, FIELDNAMES,
                                              MigrationDefaults)
       IN  /\ storeHeader' = migrated.header
           /\ storeLines' = migrated.lines
    /\ measurements' = <<>>
    /\ idx' = 0
    /\ pc' = "loop"
    /\ nRuns' = nRuns + 1
    /\ ret' = [op |-> "measure", via |-> "main", local |-> vantage', remote |-> <<>>,
               raised |-> "none",
               before |-> [header |-> storeHeader, lines |-> storeLines]]
    /\ UNCHANGED <<cin, cout, net, probeOut, domainList, compFiles, summaryFile, feedFile,
                   compListing, enrichedFile>>

MeasureLoop(cases) ==
    /\ pc = "loop"
    /\ idx < Len(domains_df)
    /\ \E nc \in cases :
        measurements' = Append(measurements,
                               LoopRow(domains_df[idx + 1], run_id, vantage, nc, clock))
    /\ idx' = idx + 1
    /\ UNCHANGED <<cin, cout, net, probeOut, domainList, storeHeader, storeLines, clock,
                   pc, run_id, vantage, domains_df, nRuns, compFiles, summaryFile,
                   feedFile, compListing, enrichedFile, ret>>

\* main() interrupted between two domains (KeyboardInterrupt is not an Exception,
\* so the loop's handler does not catch it): the rows collected in memory are
\* lost and write_rows is never reached.
MeasureAbort ==
    /\ pc = "loop"
    /\ 0 < idx
    /\ idx < Len(domains_df)
    /\ measurements' = <<>>
    /\ pc' = "idle"
    /\ ret' = [ret EXCEPT !.raised = "KeyboardInterrupt"]
    /\ UNCHANGED <<cin, cout, net, probeOut, domainList, storeHeader, storeLines, clock,
                   run_id, vantage, domains_df, idx, nRuns, compFiles, summaryFile,
                   feedFile, compListing, enrichedFile>>

MeasureFlush ==
    /\ pc = "loop"
    /\ idx = Len(domains_df)
    /\ LET written == write_rows(storeHeader, storeLines, measurements, FIELDNAMES)
       IN  /\ storeHeader' = written.header
           /\ storeLines' = written.lines
    /\ pc' = "idle"
    /\ UNCHANGED <<cin, cout, net, probeOut, domainList, clock, run_id, vantage,
                   domains_df, idx, measurements, nRuns, compFiles, summaryFile,
                   feedFile, compListing, enrichedFile, ret>>

InitPipeline ==
    /\ cin = <<>>
    /\ cout = <<>>
    /\ net = <<>>
    /\ probeOut = <<>>
    /\ domainList = PipelineDomainList
    /\ storeHeader \in {<<>>, FIELDNAMES}
    /\ storeLines = IF storeHeader = <<>> THEN <<>> ELSE <<OldLine(storeHeader)>>
    /\ clock = 1
    /\ pc = "idle"
    /\ run_id = <<>>
    /\ vantage = <<>>
    /\ domains_df = <<>>
    /\ idx = 0
    /\ measurements = <<>>
    /\ nRuns = 0
    /\ compFiles = [p \in ComparePairs |-> NoFile]
    /\ summaryFile = NoFile
    /\ feedFile = FeedInit
    /\ compListing = <<>>
    /\ enrichedFile = NoFile
    /\ ret = [op |-> "none", via |-> "none", local |-> <<>>, remote |-> <<>>, raised |-> "none"]

\* compare_vantages called by main() of 25_compare_vantages.py ("script": a
\* ValueError ends in sys.exit(1), any other exception propagates) or by
\* run_vantage_compare of main.py ("main.py": any exception is printed and
\* swallowed).  Both write the file only after compare_vantages returned.
CompareCallers == {"script", "main.py"}

Compare(local_vantage, remote_vantage) ==
    /\ pc = "idle"
    /\ LET c == compare_vantages(storeHeader, storeLines, local_vantage, remote_vantage)
       IN  /\ \E via \in CompareCallers :
                 ret' = [op |-> "compare", via |-> via, local |-> local_vantage,
                         remote |-> remote_vantage, raised |-> c.raised]
           /\ compFiles' = IF c.raised = "none"
                           THEN [compFiles EXCEPT ![<<local_vantage, remote_vantage>>] =
                                     TableFile(c.rows)]
                           ELSE compFiles
           /\ IF c.raised = "none" /\ ~compFiles[<<local_vantage, remote_vantage>>].exists
              THEN \E k \in 0..Len(compListing) :
                       compListing' = SubSeq(compListing, 1, k)
                                      \o << <<local_vantage, remote_vantage>> >>
                                      \o SubSeq(compListing, k + 1, Len(compListing))
              ELSE compListing' = compListing
    /\ UNCHANGED <<cin, cout, net, probeOut, domainList, storeHeader, storeLines, clock,
                   pc, run_id, vantage, domains_df, idx, measurements, nRuns,
                   summaryFile, feedFile, enrichedFile>>

\* main() of 20_merge_local_and_ooni.py
Merge ==
    /\ pc = "idle"
    /\ LET local == load_local_summary(storeHeader, storeLines)
           ooni == load_ooni_summary(feedFile)
           raised == IF local.raised # "none" THEN local.raised ELSE ooni.raised
       IN  /\ ret' = [op |-> "merge", via |-> "main", local |-> VANTAGE_FILTER,
                      remote |-> <<>>, raised |-> raised]
           /\ summaryFile' = IF raised = "none"
                             THEN TableFile(merge_and_save(local.rows, ooni.rows))
                             ELSE summaryFile
    /\ UNCHANGED <<cin, cout, net, probeOut, domainList, storeHeader, storeLines, clock,
                   pc, run_id, vantage, domains_df, idx, measurements, nRuns,
                   compFiles, feedFile, compListing, enrichedFile>>

\* main() of 30_classify_domains.py without --vantage-comparison-file, as
\* run_classify of main.py calls it for --vantage V.
ClassifyVantages == { <<"IN-home">>, <<"VPN-EU">> }

Enrich(local_vantage) ==
    /\ pc = "idle"
    /\ LET comp_path == find_vantage_file(compListing, local_vantage)
           e == enrich(summaryFile, storeHeader, storeLines, compFiles, local_vantage, comp_path)
       IN  /\ ret' = [op |-> "classify", via |-> "main", local |-> local_vantage,
                      remote |-> <<>>, raised |-> e.raised]
           /\ enrichedFile' = IF e.raised = "none" THEN TableFile(e.rows) ELSE enrichedFile
    /\ UNCHANGED <<cin, cout, net, probeOut, domainList, storeHeader, storeLines, clock,
                   pc, run_id, vantage, domains_df, idx, measurements, nRuns,
                   compFiles, summaryFile, feedFile, compListing>>

\* main() of main.py with --do-vantage-compare and --do-classify in one
\* invocation: run_vantage_compare catches what compare_vantages raises,
\* prints it and returns; run_classify is called next in either case and its
\* exceptions leave main().
MainCompareClassify(local_vantage, remote_vantage) ==
    /\ pc = "idle"
    /\ LET c == compare_vantages(storeHeader, storeLines, local_vantage, remote_vantage) IN
       /\ compFiles' = IF c.raised = "none"
                       THEN [compFiles EXCEPT ![<<local_vantage, remote_vantage>>] =
                                 TableFile(c.rows)]
                       ELSE compFiles
       /\ IF c.raised = "none" /\ ~compFiles[<<local_vantage, remote_vantage>>].exists
          THEN \E k \in 0..Len(compListing) :
                   compListing' = SubSeq(compListing, 1, k)
                                  \o << <<local_vantage, remote_vantage>> >>
                                  \o SubSeq(compListing, k + 1, Len(compListing))
          ELSE compListing' = compListing
       /\ LET comp_path == find_vantage_file(compListing', local_vantage)
              e == enrich(summaryFile, storeHeader, storeLines, compFiles', local_vantage,
                          comp_path)
          IN  /\ ret' = [op |-> "main", via |-> "main.py", local |-> local_vantage,
                         remote |-> remote_vantage, raised |-> e.raised,
                         compare_raised |-> c.raised, comp_file |-> comp_path]
              /\ enrichedFile' = IF e.raised = "none" THEN TableFile(e.rows)
                                 ELSE enrichedFile
    /\ UNCHANGED <<cin, cout, net, probeOut, domainList, storeHeader, storeLines, clock,
                   pc, run_id, vantage, domains_df, idx, measurements, nRuns,
                   summaryFile, feedFile>>

\* The measurer alone, on every kind of store.
InitMeasure ==
    /\ cin = <<>>
    /\ cout = <<>>
    /\ net = <<>>
    /\ probeOut = <<>>
    /\ domainList \in DomainLists
    /\ storeHeader \in StoreHeaders
    /\ storeLines = IF storeHeader = <<>> THEN <<>> ELSE <<OldLine(storeHeader)>>
    /\ clock = 1
    /\ pc = "idle"
    /\ run_id = <<>>
    /\ vantage = <<>>
    /\ domains_df = <<>>
    /\ idx = 0
    /\ measurements = <<>>
    /\ nRuns = 0
    /\ compFiles = [p \in ComparePairs |-> NoFile]
    /\ summaryFile = NoFile
    /\ feedFile = FeedInit
    /\ compListing = <<>>
    /\ enrichedFile = NoFile
    /\ ret = [op |-> "none", via |-> "none", local |-> <<>>, remote |-> <<>>, raised |-> "none"]

NextMeasure ==
    \/ \E call \in MeasureCalls : MeasureStart(call, MaxMeasureRuns)
    \/ MeasureLoop(NetCases)
    \/ MeasureFlush
    \/ MeasureAbort

SpecMeasure == InitMeasure /\ [][NextMeasure]_vars

\* The whole pipeline, from an empty data directory or from a store that holds
\* one earlier run of the local vantage.
Init == InitPipeline

Next ==
    \/ \E call \in PipelineCalls : MeasureStart(call, MaxRuns)
    \/ MeasureLoop(IF idx < Len(domains_df)
                   THEN PipelineNetCasesFor(domains_df[idx + 1]["domain"]) ELSE {})
    \/ MeasureFlush
    \/ \E p \in ComparePairs : Compare(p[1], p[2])
    \/ Merge
    \/ \E v \in ClassifyVantages : Enrich(v)
    \/ \E p \in ComparePairs : MainCompareClassify(p[1], p[2])

Spec == Init /\ [][Next]_vars

(***************************************************************************)
(* C4: in every row written to the measurement store (normal rows,         *)
(* block-page rows and pipeline-error rows) http_outcome is a label of the *)
(* closed taxonomy, and rows that agree on status code, error text, final  *)
(* URL and body snippet carry the same label.                              *)
(***************************************************************************)
Taxonomy == { <<"access_denied">>, <<"success">>, <<"redirect">>, <<"client_error">>,
              <<"server_error">>, <<"timeout">>, <<"connection_error">>, <<"other_error">>,
              <<"no_response">>, <<"blockpage_india">> }

SameEvidence(r1, r2) ==
    /\ r1.http_status_code = r2.http_status_code
    /\ r1.http_error = r2.http_error
    /\ r1.http_final_url = r2.http_final_url
    /\ r1.http_body_snippet = r2.http_body_snippet

C4_ClosedTaxonomy ==
    /\ \A i \in DOMAIN measurements : measurements[i].http_outcome \in Taxonomy
    /\ storeHeader # <<>> =>
           \A i \in DOMAIN storeLines :
               CellAt(storeHeader, storeLines[i], "http_outcome") \in Taxonomy
    /\ \A i, j \in DOMAIN measurements :
           SameEvidence(measurements[i], measurements[j])
               => measurements[i].http_outcome = measurements[j].http_outcome

IsPipelineErrorRow(r) ==
    r.http_error # <<>> /\ Head(r.http_error) = "Pipeline error:"

\* A completed run wrote a block-page row and a pipeline-error row.
C4_Witness ==
    /\ pc = "idle"
    /\ nRuns = 1
    /\ Len(measurements) = 2
    /\ measurements[1].http_outcome = <<"blockpage_india">>
    /\ IsPipelineErrorRow(measurements[2])
    /\ measurements[2].http_outcome = <<"other_error">>
    /\ Len(storeLines) >= 2
    /\ CellAt(storeHeader, storeLines[Len(storeLines)], "http_outcome") = <<"other_error">>
    /\ CellAt(storeHeader, storeLines[Len(storeLines) - 1], "http_outcome") = <<"blockpage_india">>

(***************************************************************************)
(* C5: a completed invocation of measure appends exactly one row per       *)
(* included domain of the domain list, in list order, each with the        *)
(* invocation's run_id and vantage; a domain whose measurement raised      *)
(* still gets its row and changes no other domain's row.                   *)
(***************************************************************************)
IsIncluded(line) == LowerText(Strip(line[4])) = <<"yes">>
IncludedLines == SelectSeq(domainList, IsIncluded)

\* The rows gathered so far are those of the first included domains, each
\* determined by what the network did for its own domain.
C5_Rows ==
    pc = "loop" =>
        /\ Len(measurements) = idx
        /\ idx <= Len(IncludedLines)
        /\ \A i \in DOMAIN measurements :
               /\ measurements[i].domain = Strip(IncludedLines[i][1])
               /\ measurements[i].run_id = run_id
               /\ measurements[i].vantage = vantage
               /\ DOMAIN measurements[i] = Range(FIELDNAMES)
               /\ \E nc \in NetCases :
                      measurements[i] = LoopRow(domains_df[i], run_id, vantage, nc, clock)

\* A step of the loop adds one row and keeps the earlier ones; the step that
\* ends the invocation appends one line per included domain to the store.
C5_Step ==
    /\ (pc = "loop" /\ pc' = "loop") =>
           /\ Len(measurements') = Len(measurements) + 1
           /\ SubSeq(measurements', 1, Len(measurements)) = measurements
    /\ (pc = "loop" /\ pc' = "idle" /\ ret'.raised = "none") =>
           /\ Len(measurements) = Len(IncludedLines)
           /\ storeLines' = storeLines \o [i \in 1..Len(IncludedLines) |->
                                              DictLine(measurements[i], FIELDNAMES)]

C5_OneRowPerIncludedDomain == []C5_Rows /\ [][C5_Step]_vars

\* A run over two included domains: the first measurement raised, the second
\* succeeded, and both rows are at the end of the store.
C5_Witness ==
    /\ pc = "idle"
    /\ nRuns = 1
    /\ Len(IncludedLines) = 2
    /\ Len(measurements) = 2
    /\ IsPipelineErrorRow(measurements[1])
    /\ measurements[2].http_outcome = <<"success">>
    /\ Len(storeLines) >= 2
    /\ storeLines[Len(storeLines) - 1] = DictLine(measurements[1], FIELDNAMES)
    /\ storeLines[Len(storeLines)] = DictLine(measurements[2], FIELDNAMES)

(***************************************************************************)
(* C6: every row written by measure has non-empty run_id, vantage,         *)
(* timestamp and domain, for every vantage argument the orchestrator or    *)
(* the command line can pass and every included row of the domain list.    *)
(***************************************************************************)
KeyFieldsNonEmpty(r) ==
    /\ r.run_id # <<>>
    /\ r.vantage # <<>>
    /\ r.timestamp_utc # <<>>
    /\ r.domain # <<>>

C6_KeyFieldsNonEmpty ==
    \A i \in DOMAIN measurements : KeyFieldsNonEmpty(measurements[i])

\* The four fields are non-empty in every run whose vantage argument is not "".
C6_HoldsForNonEmptyVantage ==
    vantage # <<>> => \A i \in DOMAIN measurements : KeyFieldsNonEmpty(measurements[i])

(***************************************************************************)
(* C7: an invocation of measure never mutates rows of prior runs: every    *)
(* row that was in the store before is still there, in the same order and  *)
(* with the same value under each of its columns, and the new rows come    *)
(* after them.                                                             *)
(***************************************************************************)
OldRowsKept(columns) ==
    storeHeader # <<>> =>
        /\ Len(storeLines') >= Len(storeLines)
        /\ \A i \in DOMAIN storeLines : \A c \in columns :
               /\ c \in Range(storeHeader')
               /\ CellAt(storeHeader', storeLines'[i], c) = CellAt(storeHeader, storeLines[i], c)

C7_PriorRowsNeverMutated == [][OldRowsKept(Range(storeHeader))]_vars

\* The values under the columns of the current schema are kept.
C7_SchemaColumnsKept == [][OldRowsKept(Range(storeHeader) \cap Range(FIELDNAMES))]_vars

(***************************************************************************)
(* C8: for a vantage V the Run Aggregator uses exactly the rows whose      *)
(* vantage is V and whose run_id is the maximum run_id among V's rows; no  *)
(* row of another run or of another vantage contributes to V's aggregate,  *)
(* whatever sequence of measure invocations built the store.               *)
(***************************************************************************)
StoreRows == ReadCsv(storeHeader, storeLines)

RowsOf(df, V) == SelectSeq(df, LAMBDA r : r["vantage"] = V)

IsLatestOf(df, r, V) ==
    /\ r["vantage"] = V
    /\ r["run_id"] # NaN
    /\ \A j \in DOMAIN df :
           (df[j]["vantage"] = V /\ df[j]["run_id"] # NaN)
               => RunRank(df[j]["run_id"]) <= RunRank(r["run_id"])

LatestRowsOf(df, V) == SelectSeq(df, LAMBDA r : IsLatestOf(df, r, V))

Vantages == { <<"IN-home">>, <<"VPN-EU">>, <<"VPN-US">> }

\* What both loaders select from the store at hand.
C8_Selected ==
    (pc = "idle" /\ storeHeader # <<>>) =>
        LET df == StoreRows
            local == load_local_summary(storeHeader, storeLines)
        IN  /\ \A V \in Vantages :
                   LET got == load_latest_for_vantage(df, V)
                   IN  ~got.raised => got.rows = LatestRowsOf(df, V)
            /\ local.raised = "none" => local.used = LatestRowsOf(df, VANTAGE_FILTER)

\* The comparison a compare step writes is the one of the two selections.
C8_Written ==
    (ret'.op = "compare" /\ ret'.raised = "none") =>
        LET df == StoreRows
        IN  compFiles'[<<ret'.local, ret'.remote>>] =
                TableFile({ [vantage_diff_flag |-> <<compare_classify_row(m)>>] @@ m :
                            m \in LeftJoin(aggregate_vantage(LatestRowsOf(df, ret'.local)),
                                           aggregate_vantage(LatestRowsOf(df, ret'.remote))) })

C8_LatestRunOnly == []C8_Selected /\ [][C8_Written]_vars

RunIdsOf(rows) == {rows[i]["run_id"] : i \in DOMAIN rows}

\* The local vantage has rows of two runs, the remote vantage's run is the
\* newest of the store, and a comparison of the two has been written.
C8_Witness ==
    /\ pc = "idle"
    /\ storeHeader # <<>>
    /\ ret.op = "compare"
    /\ ret.raised = "none"
    /\ compFiles[<< <<"IN-home">>, <<"VPN-EU">> >>].exists
    /\ compFiles[<< <<"IN-home">>, <<"VPN-EU">> >>].rows # {}
    /\ LET df == StoreRows
           local == RowsOf(df, <<"IN-home">>)
           latest == LatestRowsOf(df, <<"IN-home">>)
           remote == RowsOf(df, <<"VPN-EU">>)
       IN  /\ Cardinality(RunIdsOf(local)) = 2
           /\ remote # <<>>
           /\ Len(latest) < Len(local)
           /\ \A i \in DOMAIN latest : \A j \in DOMAIN remote :
                  RunRank(latest[i]["run_id"]) < RunRank(remote[j]["run_id"])

(***************************************************************************)
(* C9: if either requested vantage has zero rows in the measurement store, *)
(* compare_vantages raises an error to its caller, and that invocation     *)
(* creates or modifies no comparison file.                                 *)
(***************************************************************************)
HasRows(V) ==
    /\ storeHeader # <<>>
    /\ "vantage" \in Range(storeHeader)
    /\ \E i \in DOMAIN storeLines : CellAt(storeHeader, storeLines[i], "vantage") = V

C9_Step ==
    (ret'.op = "compare" /\ (~HasRows(ret'.local) \/ ~HasRows(ret'.remote))) =>
        /\ ret'.raised # "none"
        /\ compFiles' = compFiles

C9_ZeroRowsRaises == [][C9_Step]_vars

\* A comparison with a vantage that has no rows raised ValueError while the
\* file of an earlier comparison exists; no file was written for it.
C9_Witness ==
    /\ ret.op = "compare"
    /\ ret.remote = <<"VPN-US">>
    /\ HasRows(ret.local)
    /\ ~HasRows(ret.remote)
    /\ ret.raised = "ValueError"
    /\ compFiles[<< <<"IN-home">>, <<"VPN-EU">> >>].exists
    /\ ~compFiles[<< <<"IN-home">>, <<"VPN-US">> >>].exists

(***************************************************************************)
(* C10: the Run Aggregator output has exactly one summary row for every    *)
(* domain that has a row in the selected run: no such domain is missing    *)
(* (also when its category or subcategory is empty) and none appears in    *)
(* more than one summary row.                                              *)
(***************************************************************************)
DomainsOf(rows) == {rows[i]["domain"] : i \in DOMAIN rows}

OneRowPerDomain(rows, agg) ==
    /\ \A d \in DomainsOf(rows) : Cardinality({a \in agg : a.domain = d}) = 1
    /\ \A a \in agg : a.domain \in DomainsOf(rows)

C10_OneRowPerDomain ==
    (pc = "idle" /\ storeHeader # <<>>) =>
        LET df == StoreRows
            local == load_local_summary(storeHeader, storeLines)
        IN  /\ \A V \in Vantages :
                   LET got == load_latest_for_vantage(df, V)
                   IN  ~got.raised => OneRowPerDomain(got.rows, aggregate_vantage(got.rows))
            /\ local.raised = "none" => OneRowPerDomain(local.used, local.rows)

\* Every domain whose category and subcategory are both present has exactly
\* one summary row.
C10_HoldsForCompleteKeys ==
    (pc = "idle" /\ storeHeader # <<>>) =>
        LET df == StoreRows
        IN  \A V \in Vantages :
                LET got == load_latest_for_vantage(df, V)
                    complete == SelectSeq(got.rows, LAMBDA r : r["category"] # NaN
                                                               /\ r["subcategory"] # NaN)
                IN  ~got.raised => OneRowPerDomain(complete, aggregate_vantage(got.rows))

(***************************************************************************)
(* classify_row of 25_compare_vantages.py on every joined row              *)
(***************************************************************************)

\* Cells of a joined row: most_common gives a label of the taxonomy or "",
\* a local domain without remote counterpart has NaN on the remote side.
DiffOutcomes == Taxonomy \cup { <<>> }
DiffInputs ==
    [local_http_outcome : DiffOutcomes,
     remote_http_outcome : DiffOutcomes \cup {NaN},
     local_blockpage_flag : {BoolCell(TRUE), BoolCell(FALSE)},
     remote_blockpage_flag : {BoolCell(TRUE), BoolCell(FALSE), NaN}]

InitDiff ==
    /\ cin \in DiffInputs
    /\ cout = <<>>
    /\ net = <<>>
    /\ probeOut = <<>>
    /\ domainList = <<>>
    /\ InitPipelineIdle

DiffClassify ==
    /\ cout = <<>>
    /\ cout' = <<compare_classify_row(cin)>>
    /\ UNCHANGED <<cin, net, probeOut>>
    /\ UNCHANGED pipelineVars

NextDiff == DiffClassify

SpecDiff == InitDiff /\ [][NextDiff]_vars

(***************************************************************************)
(* C11: for all 16 combinations of (local success, remote success, local   *)
(* blockpage flag, remote blockpage flag), success meaning an outcome in   *)
(* {success, redirect}, classify_row returns the label of the first        *)
(* matching row of the decision table read top to bottom.                  *)
(***************************************************************************)
IsSuccessOutcome(cell) == cell \in { <<"success">>, <<"redirect">> }

\* The table of section 4.5: a row is <<local success, remote success, local
\* blockpage, remote blockpage, label>>, "-" matching both values.
DiffTable ==
    << <<"yes", "yes", "-",   "-",   "both_success">>,
       <<"no",  "yes", "yes", "-",   "india_blockpage_remote_ok">>,
       <<"no",  "yes", "no",  "-",   "india_blocked_remote_ok">>,
       <<"yes", "no",  "-",   "-",   "remote_blocked_india_ok">>,
       <<"no",  "no",  "-",   "-",   "both_bad">>,
       <<"yes", "no",  "-",   "yes", "remote_blockpage_india_ok">>,
       <<"-",   "-",   "-",   "-",   "other">> >>

CellMatches(entry, b) == entry = "-" \/ (entry = "yes" /\ b) \/ (entry = "no" /\ ~b)

RowMatches(k, ls, rs, lb, rb) ==
    /\ CellMatches(DiffTable[k][1], ls)
    /\ CellMatches(DiffTable[k][2], rs)
    /\ CellMatches(DiffTable[k][3], lb)
    /\ CellMatches(DiffTable[k][4], rb)

DiffTableLabel(ls, rs, lb, rb) ==
    LET first == CHOOSE k \in DOMAIN DiffTable :
                     /\ RowMatches(k, ls, rs, lb, rb)
                     /\ \A j \in 1..(k - 1) : ~RowMatches(j, ls, rs, lb, rb)
    IN  DiffTable[first][5]

LocalSuccess == IsSuccessOutcome(cin.local_http_outcome)
RemoteSuccess == IsSuccessOutcome(cin.remote_http_outcome)
LocalBlock == Truthy(cin.local_blockpage_flag)
RemoteBlock == Truthy(cin.remote_blockpage_flag)

C11_DecisionTable ==
    cout # <<>> =>
        cout[1] = DiffTableLabel(LocalSuccess, RemoteSuccess, LocalBlock, RemoteBlock)

\* A local block page with a working remote: row 2 wins over row 3.
C11_Witness ==
    /\ cout = <<"india_blockpage_remote_ok">>
    /\ ~LocalSuccess
    /\ RemoteSuccess
    /\ LocalBlock

(***************************************************************************)
(* C12: whenever the local outcome is a success and the remote outcome is  *)
(* not, the diff label is remote_blocked_india_ok even if the remote       *)
(* blockpage flag is true; the label remote_blockpage_india_ok is never    *)
(* produced for any input.                                                 *)
(***************************************************************************)
C12_RemoteBlockedWins ==
    cout # <<>> =>
        /\ (LocalSuccess /\ ~RemoteSuccess) => cout[1] = "remote_blocked_india_ok"
        /\ cout[1] # "remote_blockpage_india_ok"

\* Scenario 5: local success, remote fails with a block page.
C12_Witness ==
    /\ cout = <<"remote_blocked_india_ok">>
    /\ cin.local_http_outcome = <<"success">>
    /\ cin.remote_http_outcome = <<"blockpage_india">>
    /\ cin.remote_blockpage_flag = BoolCell(TRUE)

(***************************************************************************)
(* C13: the comparison is a left join on the local side: every domain of   *)
(* the local aggregate appears in the output, a domain absent from the     *)
(* remote aggregate has null remote outcome, status and blockpage flag and *)
(* is labelled as if the remote side had failed (remote_blocked_india_ok   *)
(* when the local outcome is a success, both_bad otherwise), a remote-only *)
(* domain does not appear, and both_success is assigned only when both     *)
(* outcomes are in {success, redirect}.                                    *)
(***************************************************************************)
AggDomains(agg) == {a.domain : a \in agg}

C13_Step ==
    (ret'.op = "compare" /\ ret'.raised = "none") =>
        LET df == StoreRows
            local_agg == aggregate_vantage(LatestRowsOf(df, ret'.local))
            remote_agg == aggregate_vantage(LatestRowsOf(df, ret'.remote))
            out == compFiles'[<<ret'.local, ret'.remote>>].rows
        IN  /\ \A d \in AggDomains(local_agg) : \E o \in out : o.domain = d
            /\ \A o \in out : o.domain \in AggDomains(local_agg)
            /\ \A o \in out :
                   o.domain \notin AggDomains(remote_agg) =>
                       /\ o.remote_http_outcome = NaN
                       /\ o.remote_status_code = NaN
                       /\ o.remote_blockpage_flag = NaN
                       /\ o.vantage_diff_flag =
                              IF IsSuccessOutcome(o.local_http_outcome)
                              THEN <<"remote_blocked_india_ok">> ELSE <<"both_bad">>
            /\ \A o \in out :
                   o.vantage_diff_flag = <<"both_success">> =>
                       /\ IsSuccessOutcome(o.local_http_outcome)
                       /\ IsSuccessOutcome(o.remote_http_outcome)

C13_LeftJoin == [][C13_Step]_vars

\* The local vantage's latest run holds old.in only, the remote vantage's
\* holds a.gov.in only: old.in is written with null remote fields, a.gov.in
\* is not written.
C13_Witness ==
    /\ pc = "idle"
    /\ ret.op = "compare"
    /\ ret.raised = "none"
    /\ ret.remote = <<"VPN-EU">>
    /\ LET df == StoreRows
           out == compFiles[<<ret.local, ret.remote>>].rows
       IN  /\ <<"a.gov.in">> \in AggDomains(aggregate_vantage(LatestRowsOf(df, ret.remote)))
           /\ <<"a.gov.in">> \notin AggDomains(out)
           /\ \E o \in out : /\ o.domain = <<"old.in">>
                             /\ o.remote_http_outcome = NaN
                             /\ o.vantage_diff_flag = <<"remote_blocked_india_ok">>

(***************************************************************************)
(* classify_row of 30_classify_domains.py on every summary row             *)
(***************************************************************************)

Rate(n, d) == [num |-> n, den |-> d]

CensorDomains == { <<"tiktok.com">>, <<"telegram.org">>, <<"x.org">> }

\* A row of the summary joined with the comparison, as enrich hands it to
\* classify_row, and the domains flagged by load_blockpage_flags.
CensorInputs ==
    [row : [category : { <<"Social & Streaming">>, <<"Civil Society & NGOs">>,
                         <<"Government">>, <<"Government-Telecom">>, NaN },
            subcategory : { <<"Adult content">>, <<"Torrent sites">>, <<"Pornography">>,
                            <<"Messaging">> },
            domain : CensorDomains,
            local_http_outcome : { <<"success">>, <<"blockpage_india">>, <<"timeout">>,
                                   <<"connection_error">> },
            ooni_failure_rate : { Rate(0, 1), Rate(1, 10), Rate(1, 5), Rate(1, 2),
                                  Rate(9, 10), Rate(1, 1) },
            vantage_diff_flag : { <<"unknown">>, <<"india_blocked_remote_ok">>,
                                  <<"india_blockpage_remote_ok">>, <<"both_success">> }],
     blockpage_flags : { {}, { <<"tiktok.com">> }, { <<"x.org">> },
                         { <<"tiktok.com">>, <<"x.org">> } }]

InitCensor ==
    /\ cin \in CensorInputs
    /\ cout = <<>>
    /\ net = <<>>
    /\ probeOut = <<>>
    /\ domainList = <<>>
    /\ InitPipelineIdle

CensorClassify ==
    /\ cout = <<>>
    /\ cout' = <<censorship_classify_row(cin.row, cin.blockpage_flags)>>
    /\ UNCHANGED <<cin, net, probeOut>>
    /\ UNCHANGED pipelineVars

NextCensor == CensorClassify

SpecCensor == InitCensor /\ [][NextCensor]_vars

(***************************************************************************)
(* C14: for every domain row, the censorship classifier returns the label  *)
(* of the first matching rule in order: (1) adult/streaming category with  *)
(* adult/torrent subcategory and (rate >= 0.9 or local outcome blockpage   *)
(* or blockpage seen or diff label india_blockpage_remote_ok) ->           *)
(* policy_blocked; (2) domain in the banned-apps set and 0.2 <= rate < 0.9 *)
(* -> app_ban_partial; (3) civil-society category and (rate > 0 or diff    *)
(* label in {india_blocked_remote_ok, india_blockpage_remote_ok} or        *)
(* blockpage seen) -> rights_org_suspect; (4) category starting with       *)
(* 'Government' and local outcome in {timeout, connection_error} and       *)
(* rate == 0 -> infra_flaky; otherwise normal.                             *)
(***************************************************************************)
\* The five inputs of section 4.6, read off the row under classification.
InCategory == cin.row.category
InSubcategory == cin.row.subcategory
InLocalOutcome == cin.row.local_http_outcome
InRate == cin.row.ooni_failure_rate
InDiffLabel == cin.row.vantage_diff_flag
BlockpageSeen == cin.row.domain \in cin.blockpage_flags

\* rate >= n/d on exact fractions
AtLeast(r, n, d) == r.num * d >= n * r.den

AdultKeyword ==
    InSubcategory \in { <<"Adult content">>, <<"Torrent sites">>, <<"Pornography">> }

Rule1 ==
    /\ InCategory = <<"Social & Streaming">>
    /\ AdultKeyword
    /\ \/ AtLeast(InRate, 9, 10)
       \/ InLocalOutcome = <<"blockpage_india">>
       \/ BlockpageSeen
       \/ InDiffLabel = <<"india_blockpage_remote_ok">>
Rule2 ==
    /\ cin.row.domain \in { <<"tiktok.com">>, <<"telegram.org">>, <<"snapchat.com">>,
                            <<"xvideos.com">> }
    /\ AtLeast(InRate, 1, 5)
    /\ ~AtLeast(InRate, 9, 10)
Rule3 ==
    /\ InCategory = <<"Civil Society & NGOs">>
    /\ \/ InRate.num > 0
       \/ InDiffLabel \in { <<"india_blocked_remote_ok">>, <<"india_blockpage_remote_ok">> }
       \/ BlockpageSeen
Rule4 ==
    /\ InCategory \in { <<"Government">>, <<"Government-Telecom">> }
    /\ InLocalOutcome \in { <<"timeout">>, <<"connection_error">> }
    /\ InRate.num = 0

FirstRuleLabel ==
    IF Rule1 THEN "policy_blocked"
    ELSE IF Rule2 THEN "app_ban_partial"
    ELSE IF Rule3 THEN "rights_org_suspect"
    ELSE IF Rule4 THEN "infra_flaky"
    ELSE "normal"

C14_FirstMatchingRule == cout # <<>> => cout[1] = FirstRuleLabel

\* Scenario 4 (Government-Telecom, timeout, rate 0.0 -> infra_flaky) is
\* C14_Witness; a banned app of the civil-society bucket with rate 0.5 takes
\* rule 2 before rule 3 in C14_RuleOrderWitness.
C14_Witness ==
    /\ cout = <<"infra_flaky">>
    /\ InCategory = <<"Government-Telecom">>
    /\ InLocalOutcome = <<"timeout">>
    /\ InRate = Rate(0, 1)

C14_RuleOrderWitness ==
    /\ cout = <<"app_ban_partial">>
    /\ Rule2
    /\ Rule3

(***************************************************************************)
(* C15: the censorship class is a function of the five inputs              *)
(* (category/subcategory, local_http_outcome, external failure rate,       *)
(* cross-vantage diff label, blockpage-seen): any two evaluations that     *)
(* agree on all five inputs yield the same label.                          *)
(***************************************************************************)
\* The evaluations that agree with the one at hand on the five inputs: the
\* same row under another domain name d, with d flagged exactly if the
\* domain at hand is.
SameFiveInputs ==
    { [row |-> [cin.row EXCEPT !.domain = d],
       blockpage_flags |-> IF BlockpageSeen THEN f \cup {d} ELSE f \ {d}]
      : <<d, f>> \in CensorDomains \X (SUBSET CensorDomains) }

C15_FunctionOfFiveInputs ==
    cout # <<>> =>
        \A e \in SameFiveInputs :
            censorship_classify_row(e.row, e.blockpage_flags) = cout[1]

\* As amended: the label is a function of the five inputs together with
\* whether the domain is one of the banned apps.
IsBannedApp(d) == d \in BANNED_APPS

C15_FunctionOfFiveInputsAndBannedApp ==
    cout # <<>> =>
        \A e \in SameFiveInputs :
            IsBannedApp(e.row.domain) = IsBannedApp(cin.row.domain) =>
                censorship_classify_row(e.row, e.blockpage_flags) = cout[1]

\* A banned app with a moderate failure rate: its label is one no other
\* domain with the same five inputs gets.
C15_Witness ==
    /\ cout = <<"app_ban_partial">>
    /\ cin.row.domain = <<"tiktok.com">>
    /\ InCategory = <<"Government">>
    /\ InRate = Rate(1, 2)
    /\ cin.blockpage_flags = { <<"x.org">> }

(***************************************************************************)
(* C16: for every domain of the local summary, the external failure rate   *)
(* that reaches the censorship classifier is a defined number: a domain    *)
(* with no rows in the external feed gets total count 0, failure count 0   *)
(* and failure rate 0.0, never null/NaN, and for a domain with feed rows   *)
(* 0 <= failure count <= total count.                                      *)
(***************************************************************************)
FeedRowsOf(d) == {i \in DOMAIN feedFile.lines : feedFile.lines[i][1] = d}

DefinedRate(r) ==
    /\ r.ooni_failure_rate.den > 0
    /\ FeedRowsOf(r.domain) = {} =>
           /\ r.ooni_total_measurements = 0
           /\ r.ooni_failure_count = 0
           /\ r.ooni_failure_rate.num = 0
    /\ FeedRowsOf(r.domain) # {} =>
           /\ r.ooni_total_measurements = Cardinality(FeedRowsOf(r.domain))
           /\ 0 <= r.ooni_failure_count
           /\ r.ooni_failure_count <= r.ooni_total_measurements
           /\ r.ooni_failure_rate.num * r.ooni_total_measurements
                  = r.ooni_failure_count * r.ooni_failure_rate.den

C16_DefinedFailureRate ==
    /\ \A r \in summaryFile.rows : DefinedRate(r)
    /\ \A r \in load_summary(summaryFile).rows : DefinedRate(r)
    /\ \A r \in enrichedFile.rows : DefinedRate(r)

\* Scenario 3: a.gov.in has no row in the feed and was classified with the
\* rate 0.0; old.in, with two feed rows of which one failed, has rate 1/2.
C16_Witness ==
    /\ ret.op = "classify"
    /\ ret.raised = "none"
    /\ \E r \in enrichedFile.rows :
           /\ r.domain = <<"a.gov.in">>
           /\ FeedRowsOf(r.domain) = {}
           /\ r.ooni_failure_rate = Rate(0, 1)

C16_WitnessFeedRows ==
    /\ ret.op = "classify"
    /\ \E r \in enrichedFile.rows :
           /\ r.domain = <<"old.in">>
           /\ r.ooni_total_measurements = 2
           /\ r.ooni_failure_count = 1
           /\ r.ooni_failure_rate = Rate(1, 2)

(***************************************************************************)
(* C17: after any sequence of measure, merge, compare and classify         *)
(* operations, the censorship_class that classify writes for a domain      *)
(* equals the label computed from the evidence current at that moment: the *)
(* aggregate of the local vantage's latest run in the measurement store,   *)
(* the diff label of the two vantages' latest runs, the blockpage rows in  *)
(* the store, and the current feed.  It never reflects an earlier run      *)
(* through a previously written summary or comparison file.                *)
(***************************************************************************)
ClassOf(rows) == { <<r.domain, r.censorship_class>> : r \in rows }

\* The classes of the domains when summary and comparison are recomputed
\* from the store and the feed at hand; the comparison is the one of the
\* pair whose file classify would pick (none: the diff label is unknown).
CurrentClasses(local_vantage) ==
    LET local == load_local_summary(storeHeader, storeLines)
        ooni == load_ooni_summary(feedFile)
        comp_path == find_vantage_file(compListing, local_vantage)
        fresh == IF comp_path = None THEN compFiles
                 ELSE [compFiles EXCEPT ![comp_path[1]] =
                           TableFile(compare_vantages(storeHeader, storeLines,
                                                      comp_path[1][1], comp_path[1][2]).rows)]
    IN  ClassOf(enrich(TableFile(merge_and_save(local.rows, ooni.rows)),
                       storeHeader, storeLines, fresh, local_vantage, comp_path).rows)

C17_Step ==
    (ret'.op = "classify" /\ ret'.raised = "none") =>
        ClassOf(enrichedFile'.rows) = CurrentClasses(ret'.local)

C17_CurrentEvidence == [][C17_Step]_vars

\* The state TLC reaches against C17: classify has just written infra_flaky
\* for a.gov.in from a summary of the earlier run (timeout), while the latest
\* run of the local vantage in the store gives normal.
C17_StaleLabelWritten ==
    /\ ret.op = "classify"
    /\ ret.raised = "none"
    /\ <<<<"a.gov.in">>, <<"infra_flaky">>>> \in ClassOf(enrichedFile.rows)
    /\ <<<<"a.gov.in">>, <<"normal">>>> \in CurrentClasses(ret.local)

(***************************************************************************)
(* C18: compare and classify are idempotent operations: running            *)
(* compare(local, remote) twice, or classify twice, with no intervening    *)
(* change to the measurement store, the summary file, the feed file or the *)
(* set of comparison files, writes the same output file content both       *)
(* times.                                                                  *)
(***************************************************************************)
\* ret is the last top-level call: a step that repeats it is the second of
\* two calls with nothing in between.
C18_Step ==
    /\ (/\ ret.op = "compare" /\ ret'.op = "compare"
        /\ ret'.local = ret.local /\ ret'.remote = ret.remote) =>
           /\ ret'.raised = ret.raised
           /\ compFiles' = compFiles
           /\ compListing' = compListing
    /\ (ret.op = "classify" /\ ret'.op = "classify" /\ ret'.local = ret.local) =>
           /\ ret'.raised = ret.raised
           /\ enrichedFile' = enrichedFile

\* What a repetition of the last call would write, computed in the state the
\* call has left.
C18_Rewritten ==
    /\ (ret.op = "compare" /\ ret.raised = "none") =>
           compFiles[<<ret.local, ret.remote>>] =
               TableFile(compare_vantages(storeHeader, storeLines, ret.local, ret.remote).rows)
    /\ (ret.op = "classify" /\ ret.raised = "none") =>
           enrichedFile =
               TableFile(enrich(summaryFile, storeHeader, storeLines, compFiles, ret.local,
                                find_vantage_file(compListing, ret.local)).rows)

C18_Idempotent == []C18_Rewritten /\ [][C18_Step]_vars

\* classify has written diff labels taken from a comparison file, and a
\* compare of the same pair has run before; both can be repeated.
C18_Witness ==
    /\ pc = "idle"
    /\ ret.op = "classify"
    /\ ret.raised = "none"
    /\ compFiles[<< <<"IN-home">>, <<"VPN-EU">> >>].exists
    /\ \E r \in enrichedFile.rows : r.vantage_diff_flag # <<"unknown">>

(***************************************************************************)
(* C19: the HTTP probe issues the plain-HTTP GET at most once and only     *)
(* after the HTTPS GET raised a transport-level failure; no attempt is     *)
(* retried; the recorded status code and final URL are those of the        *)
(* attempt that returned a response; the status code is absent exactly     *)
(* when neither attempt returned a response.                               *)
(***************************************************************************)
Times(seq, x) == Cardinality({i \in DOMAIN seq : seq[i] = x})

C19_Attempts ==
    probeOut # <<>> =>
        LET out == probeOut[1]
        IN  /\ Times(out.requests, "https://") = 1
            /\ Times(out.requests, "http://") <= 1
            /\ out.requests[1] = "https://"
            /\ Times(out.requests, "http://") = 1 => net.https.kind = "exc"
            /\ ~out.raised =>
                   /\ HttpsAnswered =>
                          /\ out.http_status_code = StatusCell(Some(net.https.status))
                          /\ out.http_final_url = net.https.url
                   /\ HttpAnswered =>
                          /\ out.http_status_code = StatusCell(Some(net.http.status))
                          /\ out.http_final_url = net.http.url
                   /\ out.http_status_code = <<>> <=> ~(HttpsAnswered \/ HttpAnswered)

\* HTTPS failed, the fallback answered 403, and a second state where both
\* attempts failed and no status is recorded.
C19_Witness ==
    /\ ProbeReturned
    /\ probeOut[1].requests = <<"https://", "http://">>
    /\ net.https.kind = "exc"
    /\ net.http.kind = "resp"
    /\ probeOut[1].http_status_code = <<"403">>
    /\ probeOut[1].http_final_url = <<"http://example.in/">>

C19_WitnessNoResponse ==
    /\ ProbeReturned
    /\ probeOut[1].requests = <<"https://", "http://">>
    /\ net.http.kind = "exc"
    /\ probeOut[1].http_status_code = <<>>

(***************************************************************************)
(* _query_dns on every combination of per-record-type results              *)
(***************************************************************************)

\* What resolver.resolve does for one record type; nameservers is None for
\* the local resolver and ["8.8.8.8"] for the public one.
DnsResultsA ==
    { Answer(<<"93.184.216.34">>), Answer(<<"93.184.216.34", "93.184.216.35">>), NoAnswer,
      DnsExc(<<"NXDOMAIN">>), DnsExc(<<"LifetimeTimeout">>), DnsExc(<<"NoNameservers">>) }
DnsResultsAAAA ==
    { Answer(<<"2606:2800:220:1::1">>), Answer(<<"2606:2800:220:1::1", "2606:2800:220:1::2">>),
      NoAnswer,
      DnsExc(<<"NXDOMAIN">>), DnsExc(<<"LifetimeTimeout">>), DnsExc(<<"NoNameservers">>) }

InitDns ==
    /\ cin \in [A : DnsResultsA, AAAA : DnsResultsAAAA,
                nameservers : {None, Some(<<"8.8.8.8">>)}]
    /\ cout = <<>>
    /\ net = <<>>
    /\ probeOut = <<>>
    /\ domainList = <<>>
    /\ InitPipelineIdle

QueryDns ==
    /\ cout = <<>>
    /\ cout' = <<_query_dns(cin)>>
    /\ UNCHANGED <<cin, net, probeOut>>
    /\ UNCHANGED pipelineVars

NextDns == QueryDns

SpecDns == InitDns /\ [][NextDns]_vars

(***************************************************************************)
(* C20: for each resolver, the DNS probe reports ok = true exactly when at *)
(* least one A or AAAA address was returned (the address list is           *)
(* non-empty), for every combination of per-record-type results (answer,   *)
(* no-such-record, other resolution exception); a no-such-record result    *)
(* for one type is skipped and does not by itself make the probe fail.     *)
(***************************************************************************)
C20_OkIffAddress ==
    cout # <<>> =>
        /\ cout[1].ok <=> cout[1].ips # <<>>
        /\ (cin.A.kind = "noanswer" /\ cin.AAAA.kind = "answer") => cout[1].ok
        /\ (cin.A.kind = "answer" /\ cin.AAAA.kind = "noanswer") => cout[1].ok

\* It holds when no query ends in another resolution exception.
C20_HoldsWithoutException ==
    (cout # <<>> /\ cin.A.kind # "dnsexc" /\ cin.AAAA.kind # "dnsexc") =>
        /\ cout[1].ok <=> cout[1].ips # <<>>
        /\ (cin.A.kind = "noanswer" /\ cin.AAAA.kind = "answer") => cout[1].ok
        /\ (cin.A.kind = "answer" /\ cin.AAAA.kind = "noanswer") => cout[1].ok

\* The A query returned an address and the AAAA query timed out: the address
\* is reported and ok is false.
C20_AddressButNotOk ==
    /\ cout # <<>>
    /\ cin.A.kind = "answer"
    /\ cin.AAAA.kind = "dnsexc"
    /\ cout[1].ips # <<>>
    /\ ~cout[1].ok

(***************************************************************************)
(* C21: when an exception escapes measure_domain for a domain, the row     *)
(* emitted for that domain has every *_ok field false, the same 'Pipeline  *)
(* error' message in every *_error field, empty address, URL, status,      *)
(* snippet and certificate fields, http_outcome = other_error, and has     *)
(* exactly the same set of columns as a normal row; the loop then          *)
(* continues with the next domain.                                         *)
(***************************************************************************)
OkFields == {"tcp_80_ok", "tcp_443_ok", "dns_local_ok", "dns_public_ok", "tls_ok"}
ErrorFields == {"tcp_80_error", "tcp_443_error", "dns_local_error", "dns_public_error",
                "http_error", "tls_error"}
EmptyFields == {"dns_local_ips", "dns_public_ips", "http_final_url", "http_status_code",
                "http_body_snippet", "tls_issuer", "tls_not_before", "tls_not_after"}

ErrorRowShape(r, exc) ==
    /\ \A f \in OkFields : r[f] = <<"False">>
    /\ \A f \in ErrorFields : r[f] = <<"Pipeline error:">> \o exc
    /\ \A f \in EmptyFields : r[f] = <<>>
    /\ r["http_outcome"] = <<"other_error">>
    /\ DOMAIN r = Range(FIELDNAMES)

\* The network cases in which an exception leaves measure_domain.
RaisingCases ==
    {nc \in NetCases : measure_domain(<<"d">>, <<>>, <<>>, <<>>, <<>>, nc, 1).raised}

\* A step of the loop: whatever the network did, a row of the schema's
\* columns is buffered for the domain and the loop goes on; if the row is the
\* one of a raising case, it has the shape of the claim.
C21_Step ==
    (pc = "loop" /\ idx' = idx + 1) =>
        LET dfrow == domains_df[idx']
            r == measurements'[idx']
        IN  /\ pc' = "loop"
            /\ Len(measurements') = idx'
            /\ SubSeq(measurements', 1, idx) = measurements
            /\ r["domain"] = Strip(StrOf(dfrow["domain"]))
            /\ DOMAIN r = Range(FIELDNAMES)
            /\ \A nc \in RaisingCases :
                   r = LoopRow(dfrow, run_id, vantage, nc, clock) =>
                       ErrorRowShape(r, nc.https.msg)
            /\ IsPipelineErrorRow(r) =>
                   \E nc \in RaisingCases : ErrorRowShape(r, nc.https.msg)

C21_PipelineErrorRow == [][C21_Step]_vars

\* The first domain raised and the loop went on to measure the second.
C21_Witness ==
    /\ Len(measurements) = 2
    /\ IsPipelineErrorRow(measurements[1])
    /\ ErrorRowShape(measurements[1], <<"UnicodeError">>)
    /\ ~IsPipelineErrorRow(measurements[2])
    /\ measurements[2]["http_outcome"] = <<"success">>
    /\ DOMAIN measurements[2] = DOMAIN measurements[1]

(***************************************************************************)
(* C22: if an existing store lacks any column of the current schema,       *)
(* measure rewrites it once with the expanded header: the number and order *)
(* of legacy rows are unchanged, every value a legacy row had in any of    *)
(* its original columns is preserved, and each missing column is filled    *)
(* with its declared default (vantage = 'unknown', otherwise empty); a     *)
(* store that already has every schema column is not rewritten.            *)
(***************************************************************************)
MissingColumns == Range(FIELDNAMES) \ Range(storeHeader)

DeclaredDefault(c) == IF c = "vantage" THEN <<"unknown">> ELSE <<>>

\* The step of an invocation that runs migrate_output_columns, on a store
\* that exists; kept is the set of original columns whose values must stay.
Migrated(kept) ==
    (pc = "idle" /\ pc' = "loop" /\ storeHeader # <<>>) =>
        IF MissingColumns = {}
        THEN storeHeader' = storeHeader /\ storeLines' = storeLines
        ELSE /\ Range(FIELDNAMES) \subseteq Range(storeHeader')
             /\ Len(storeLines') = Len(storeLines)
             /\ \A i \in DOMAIN storeLines :
                    /\ \A c \in kept :
                           /\ c \in Range(storeHeader')
                           /\ CellAt(storeHeader', storeLines'[i], c)
                                  = CellAt(storeHeader, storeLines[i], c)
                    /\ \A c \in MissingColumns :
                           CellAt(storeHeader', storeLines'[i], c) = DeclaredDefault(c)

C22_MigrationKeepsAllColumns == [][Migrated(Range(storeHeader))]_vars

\* It holds for the original columns that belong to the current schema.
C22_HoldsForSchemaColumns == [][Migrated(Range(storeHeader) \cap Range(FIELDNAMES))]_vars

\* After the migration of the store that lacked 'vantage' and had 'notes':
\* the legacy row has vantage = unknown and the column 'notes' is gone.
C22_NotesDropped ==
    /\ pc = "loop"
    /\ storeHeader = FIELDNAMES
    /\ Len(storeLines) = 1
    /\ CellAt(storeHeader, storeLines[1], "vantage") = <<"unknown">>
    /\ CellAt(storeHeader, storeLines[1], "run_id") = <<"20251210T090000Z">>

(***************************************************************************)
(* C23: the blockpage-seen input of the censorship classifier for a domain *)
(* is true exactly when the store holds at least one row, in any run, with *)
(* vantage equal to the local vantage and http_outcome blockpage_india for *)
(* that domain; so once such a row has been appended, blockpage-seen stays *)
(* true in every later classify invocation, also when the latest run has   *)
(* no block page for that domain, and rows of other vantages never set it. *)
(***************************************************************************)
\* The domains with a block-page row of vantage V, read off the store's lines.
BlockpageRowsOf(header, lines, V) ==
    { CellAt(header, lines[i], "domain") :
          i \in {j \in DOMAIN lines :
                     /\ CellAt(header, lines[j], "vantage") = V
                     /\ CellAt(header, lines[j], "http_outcome") = <<"blockpage_india">>} }

C23_Seen ==
    (pc = "idle" /\ storeHeader # <<>>) =>
        /\ \A V \in Vantages :
               load_blockpage_flags(storeHeader, storeLines, V)
                   = BlockpageRowsOf(storeHeader, storeLines, V)
        /\ (ret.op = "classify" /\ ret.raised = "none") =>
               \A r \in enrichedFile.rows :
                   r.censorship_class =
                       <<censorship_classify_row(
                             r, BlockpageRowsOf(storeHeader, storeLines, ret.local))>>

C23_Stays ==
    (storeHeader # <<>> /\ <<storeHeader, storeLines>>' # <<storeHeader, storeLines>>) =>
        \A V \in Vantages :
            load_blockpage_flags(storeHeader, storeLines, V)
                \subseteq load_blockpage_flags(storeHeader', storeLines', V)

C23_BlockpageSeen == []C23_Seen /\ [][C23_Stays]_vars

\* classify ran when a.gov.in had a block page in the earlier run of IN-home
\* and none in the latest one: it is still flagged for IN-home.
C23_Witness ==
    /\ pc = "idle"
    /\ ret.op = "classify"
    /\ ret.raised = "none"
    /\ LET df == StoreRows
           latest == LatestRowsOf(df, <<"IN-home">>)
       IN  /\ \E i \in DOMAIN latest : /\ latest[i]["domain"] = <<"a.gov.in">>
                                       /\ latest[i]["http_outcome"] = <<"success">>
           /\ \A i \in DOMAIN latest : latest[i]["http_outcome"] # <<"blockpage_india">>
    /\ <<"a.gov.in">> \in load_blockpage_flags(storeHeader, storeLines, <<"IN-home">>)

\* A block page seen from VPN-EU only does not flag the domain for IN-home.
C23_WitnessOtherVantage ==
    /\ pc = "idle"
    /\ <<"a.gov.in">> \in load_blockpage_flags(storeHeader, storeLines, <<"VPN-EU">>)
    /\ <<"a.gov.in">> \notin load_blockpage_flags(storeHeader, storeLines, <<"IN-home">>)
    /\ \E i \in DOMAIN storeLines : CellAt(storeHeader, storeLines[i], "vantage") = <<"IN-home">>

(***************************************************************************)
(* C24: if a measurement run is aborted between two domains, the store's   *)
(* rows are exactly those present before the run started: already-written  *)
(* rows are intact and no row of the aborted run is in the store, because  *)
(* the run's rows are flushed in a single write after the last domain.     *)
(***************************************************************************)
Aborted == pc = "idle" /\ ret.op = "measure" /\ ret.raised = "KeyboardInterrupt"

\* The store has the rows it had when the run started, with their values
\* under the columns kept.
RowsAsBefore(kept) ==
    /\ Len(storeLines) = Len(ret.before.lines)
    /\ \A i \in DOMAIN storeLines :
           \A c \in kept :
               /\ c \in Range(storeHeader)
               /\ CellAt(storeHeader, storeLines[i], c)
                      = CellAt(ret.before.header, ret.before.lines[i], c)

C24_AbortLeavesStore == Aborted => RowsAsBefore(Range(ret.before.header))

\* What holds: no row of the aborted run is in the store, and the rows
\* written before keep their values under the columns of the schema; a store
\* that needs no migration is left byte for byte.
C24_HoldsForSchemaColumns ==
    Aborted =>
        /\ RowsAsBefore(Range(ret.before.header) \cap Range(FIELDNAMES))
        /\ Range(FIELDNAMES) \subseteq Range(ret.before.header) =>
               /\ storeHeader = ret.before.header
               /\ storeLines = ret.before.lines
        /\ ret.before.header = <<>> => storeHeader = <<>> /\ storeLines = <<>>

\* The run on the store with the extra column 'notes' was aborted after its
\* first domain: the row written before has lost its note.
C24_AbortedAfterMigration ==
    /\ Aborted
    /\ idx = 1
    /\ "notes" \in Range(ret.before.header)
    /\ CellAt(ret.before.header, ret.before.lines[1], "notes") # <<>>
    /\ "notes" \notin Range(storeHeader)

\* The abort on a store of the current schema leaves it as it was.
C24_AbortedOnCurrentSchema ==
    /\ Aborted
    /\ idx = 1
    /\ ret.before.header = FIELDNAMES
    /\ storeHeader = FIELDNAMES
    /\ storeLines = ret.before.lines
    /\ Len(storeLines) = 1

(***************************************************************************)
(* 10_ingest_ooni.py: fetch_measurements, the paginated fetch of the       *)
(* external feed.  The remote side is a script: for each page, what each   *)
(* of the attempts would meet, the size of the page's result list and      *)
(* whether the page names a next page; and what the body of an error       *)
(* response is.                                                            *)
(***************************************************************************)
MAX_MEASUREMENTS == 8000
MAX_RETRIES == 3
MaxPages == 2

\* One attempt: requests.get raises ("exc"), returns a response whose
\* raise_for_status raises ("http_error"), or returns a good response ("ok").
AttemptOutcomes == {"exc", "http_error", "ok"}
BatchSizes == {0, 5000, 9000}
\* The body of an error response: a JSON object without results, or no JSON.
ErrorBodies == {"json", "html"}

FeedPages == [tries : [1..MAX_RETRIES -> AttemptOutcomes], n : BatchSizes, more : BOOLEAN]
FetchInputs ==
    [pages : UNION {[1..k -> FeedPages] : k \in 1..MaxPages}, error_body : ErrorBodies]

\* The retry loop of one page: `response` is assigned by requests.get before
\* raise_for_status is called, and keeps its value when a later attempt raises.
RECURSIVE RetryLoop(_, _, _, _)
RetryLoop(tries, i, response, attempts) ==
    IF i > MAX_RETRIES THEN [response |-> response, attempts |-> attempts]
    ELSE CASE tries[i] = "ok" -> [response |-> "ok", attempts |-> attempts + 1]
           [] tries[i] = "http_error" -> RetryLoop(tries, i + 1, "failed", attempts + 1)
           [] OTHER -> RetryLoop(tries, i + 1, response, attempts + 1)

\* The while loop; url is the index of the page to fetch, 0 for None.  The
\* value records, besides what is returned or raised, the attempts made for
\* each page and the responses handed to response.json().
RECURSIVE FetchPages(_, _, _)
FetchPages(in, url, st) ==
    IF url = 0 \/ st.count >= MAX_MEASUREMENTS
    THEN [raised |-> "none", count |-> Min(st.count, MAX_MEASUREMENTS),
          attempts |-> st.attempts, parsed |-> st.parsed]
    ELSE LET page == in.pages[url]
             got == RetryLoop(page.tries, 1, "none", 0)
             attempts == Append(st.attempts, got.attempts)
         IN  IF got.response = "none"
             THEN [raised |-> "RuntimeError", count |-> 0,
                   attempts |-> attempts, parsed |-> st.parsed]
             ELSE IF got.response = "failed" /\ in.error_body = "html"
             THEN [raised |-> "JSONDecodeError", count |-> 0,
                   attempts |-> attempts, parsed |-> Append(st.parsed, "failed")]
             ELSE LET ok == got.response = "ok"
                      batch == IF ok THEN page.n ELSE 0
                      next_url == IF ok /\ page.more /\ url < Len(in.pages)
                                  THEN url + 1 ELSE 0
                  IN  FetchPages(in, next_url,
                                 [count |-> st.count + batch, attempts |-> attempts,
                                  parsed |-> Append(st.parsed, got.response)])

fetch_measurements(in) == FetchPages(in, 1, [count |-> 0, attempts |-> <<>>, parsed |-> <<>>])

InitFetch ==
    /\ cin \in FetchInputs
    /\ cout = <<>>
    /\ net = <<>>
    /\ probeOut = <<>>
    /\ domainList = <<>>
    /\ InitPipelineIdle

FetchMeasurements ==
    /\ cout = <<>>
    /\ cout' = <<fetch_measurements(cin)>>
    /\ UNCHANGED <<cin, net, probeOut>>
    /\ UNCHANGED pipelineVars

NextFetch == FetchMeasurements

SpecFetch == InitFetch /\ [][NextFetch]_vars

(***************************************************************************)
(* C25: the external-feed fetch attempts each page at most MAX_RETRIES (3) *)
(* times; if every attempt for a page fails, whether by a raised transport *)
(* exception or by an HTTP error status, fetch_measurements raises         *)
(* RuntimeError and does not parse or use a failed response; the returned  *)
(* list never exceeds MAX_MEASUREMENTS entries.                            *)
(***************************************************************************)
EveryAttempt(tries, outcomes) == \A i \in 1..MAX_RETRIES : tries[i] \in outcomes

Fetched(failures) ==
    cout # <<>> =>
        LET r == cout[1]
        IN  /\ \A p \in DOMAIN r.attempts :
                   /\ r.attempts[p] <= MAX_RETRIES
                   /\ EveryAttempt(cin.pages[p].tries, failures) =>
                          /\ r.raised = "RuntimeError"
                          /\ "failed" \notin Range(r.parsed)
            /\ r.raised = "none" => r.count <= MAX_MEASUREMENTS

C25_FetchRetries == Fetched({"exc", "http_error"})

\* What holds: the bound on the attempts, the cap on the list, and the
\* RuntimeError when every attempt raised a transport exception.
C25_HoldsForTransportErrors ==
    /\ Fetched({"exc"})
    /\ cout # <<>> =>
           \A p \in DOMAIN cout[1].attempts :
               (\E i \in 1..MAX_RETRIES : cin.pages[p].tries[i] = "ok") =>
                   /\ cin.pages[p].tries[cout[1].attempts[p]] = "ok"
                   /\ cout[1].parsed[p] = "ok"

\* Three HTTP 5xx answers for the second page: no RuntimeError, the error
\* body is parsed as an empty last page and the first page's list is returned.
C25_FailedResponseUsed ==
    /\ cout # <<>>
    /\ Len(cin.pages) = 2
    /\ EveryAttempt(cin.pages[2].tries, {"http_error"})
    /\ cout[1].raised = "none"
    /\ cout[1].attempts = <<1, MAX_RETRIES>>
    /\ cout[1].parsed = <<"ok", "failed">>
    /\ cout[1].count = 5000

\* Two pages of results pass the cap: the list returned is cut to it.
C25_Capped ==
    /\ cout # <<>>
    /\ cout[1].raised = "none"
    /\ cout[1].parsed = <<"ok", "ok">>
    /\ cin.pages[1].n + cin.pages[2].n > MAX_MEASUREMENTS
    /\ cout[1].count = MAX_MEASUREMENTS

(***************************************************************************)
(* C26: in one orchestrator invocation that requests both the vantage      *)
(* comparison and the classification, an aggregation error in the          *)
(* comparison (a vantage with no rows) fails fast: it is surfaced to the   *)
(* caller and the later classify step does not run on a comparison file    *)
(* left over from an earlier invocation.                                   *)
(***************************************************************************)
C26_Step ==
    (ret'.op = "main" /\ ret'.compare_raised # "none") =>
        /\ ret'.raised = ret'.compare_raised
        /\ enrichedFile' = enrichedFile

C26_FailFast == [][C26_Step]_vars

\* What holds: the failed comparison writes no comparison file, and classify
\* then runs as it would alone, on the comparison file found in the listing.
C26_ClassifyRunsAnyway ==
    [][(ret'.op = "main" /\ ret'.compare_raised # "none") =>
           /\ compFiles' = compFiles
           /\ compListing' = compListing
           /\ ret'.comp_file = find_vantage_file(compListing, ret'.local)
           /\ LET e == enrich(summaryFile, storeHeader, storeLines, compFiles,
                              ret'.local, ret'.comp_file)
              IN  /\ ret'.raised = e.raised
                  /\ e.raised = "none" => enrichedFile' = TableFile(e.rows)]_vars

\* The comparison with VPN-US failed for want of rows, main() raised nothing
\* and the classification was written with the flags of the file left by an
\* earlier comparison with VPN-EU.
C26_LeftoverUsed ==
    /\ ret.op = "main"
    /\ ret.remote = <<"VPN-US">>
    /\ ret.compare_raised # "none"
    /\ ret.raised = "none"
    /\ ret.comp_file = Some(<< <<"IN-home">>, <<"VPN-EU">> >>)
    /\ enrichedFile.exists
    /\ \E r \in enrichedFile.rows : r.vantage_diff_flag \notin {<<>>, NaN}

(***************************************************************************)
(* C27: two distinct invocations of measure at the same vantage never      *)
(* share a run_id, and a later invocation's run_id compares greater than   *)
(* an earlier one's; hence the rows the Run Aggregator selects for a       *)
(* vantage all come from a single invocation, the most recent one.         *)
(***************************************************************************)
\* The run_id an invocation takes, against those of the rows its vantage has
\* in the store; `when` says for which starts the comparison is strict.
RunIdAfter(when) ==
    (pc = "idle" /\ pc' = "loop" /\ storeHeader' # <<>>) =>
        \A i \in DOMAIN storeLines' :
            CellAt(storeHeader', storeLines'[i], "vantage") = vantage' =>
                LET old == RunRank(CellAt(storeHeader', storeLines'[i], "run_id"))
                IN  IF when THEN old < RunRank(run_id') ELSE old <= RunRank(run_id')

\* After a completed invocation the aggregator's selection for its vantage is
\* the rows that invocation appended.
SelectsLastInvocation ==
    (pc = "idle" /\ nRuns > 0) =>
        LET df == StoreRows
            n == Len(domains_df)
        IN  load_latest_for_vantage(df, vantage).rows = SubSeq(df, Len(df) - n + 1, Len(df))

C27_RunIdsDistinct == []SelectsLastInvocation /\ [][RunIdAfter(TRUE)]_vars

\* What holds: run_ids never decrease, and an invocation started in a later
\* second than every earlier one takes a greater run_id.
C27_HoldsAcrossSeconds == [][RunIdAfter(clock' > clock)]_vars

\* Two invocations at IN-home within one second: both carry the same run_id
\* and the aggregator selects the rows of both.
C27_SharedRunId ==
    /\ pc = "idle"
    /\ nRuns = 2
    /\ vantage = <<"IN-home">>
    /\ LET df == StoreRows
           got == load_latest_for_vantage(df, vantage).rows
       IN  /\ Len(got) = 2 * Len(domains_df)
           /\ got[1]["domain"] = got[1 + Len(domains_df)]["domain"]
           /\ got[1]["run_id"] = run_id
           /\ got[1]["http_outcome"] # got[1 + Len(domains_df)]["http_outcome"]

(***************************************************************************)
(* C28: the HTTP probe never produces the outcome no_response and never    *)
(* reaches the rule 'no status, no error, final URL recorded -> success':  *)
(* a final URL is recorded exactly when a status code is recorded, and     *)
(* when no status code is recorded the error text holds both an 'HTTPS     *)
(* error' and an 'HTTP error' entry.                                       *)
(***************************************************************************)
\* The status code handed to classify_http_outcome by the probe.
ProbeStatus ==
    IF HttpsAnswered THEN Some(net.https.status)
    ELSE IF HttpAnswered THEN Some(net.http.status)
    ELSE None

\* The classifier gets past its status rules and its error rules and
\* returns success by the rule on the final URL.
FinalUrlRuleReached(status_code, errors, final_url) ==
    /\ classify_http_outcome(status_code, <<>>, <<>>) = "no_response"
    /\ errors = <<>>
    /\ final_url # <<>>

ProbeRules(reached) ==
    ProbeReturned =>
        LET out == probeOut[1]
        IN  /\ out.http_outcome # <<"no_response">>
            /\ FinalUrlRuleReached(ProbeStatus, ProbeErrors(net), out.http_final_url)
                   => reached
            /\ out.http_final_url # <<>> <=> out.http_status_code # <<>>
            /\ out.http_status_code = <<>> =>
                   out.http_error = (<<"HTTPS error:">> \o net.https.msg)
                                    \o <<"|">> \o (<<"HTTP error:">> \o net.http.msg)

C28_NoResponseUnreachable == ProbeRules(FALSE)

\* What holds: the rule on the final URL is reached only with a status code
\* outside 200..599, never without a status code; the rest is as claimed.
C28_HoldsOnStandardStatus ==
    ProbeRules(ProbeStatus # None /\ ProbeStatus[1] \notin 200..599)

\* The HTTPS GET answered 999 with a clean body: success, by the rule on the
\* final URL.
C28_FinalUrlRuleReached ==
    /\ ProbeReturned
    /\ net.https.kind = "resp"
    /\ net.https.status = 999
    /\ probeOut[1].http_status_code = <<"999">>
    /\ probeOut[1].http_error = <<>>
    /\ probeOut[1].http_final_url = <<"https://example.in/">>
    /\ probeOut[1].http_outcome = <<"success">>

\* Both attempts failed, the second with an exception of empty message: no
\* status, no final URL, and both entries in the error text.
C28_BothFailed ==
    /\ ProbeReturned
    /\ net.https.kind = "exc"
    /\ net.http.kind = "exc"
    /\ net.http.msg = <<>>
    /\ probeOut[1].http_status_code = <<>>
    /\ probeOut[1].http_final_url = <<>>
    /\ probeOut[1].http_error = <<"HTTPS error:", "SSLError", "|", "HTTP error:">>
    /\ probeOut[1].http_outcome = <<"other_error">>

(***************************************************************************)
(* C29: after any sequence of measure invocations on any pre-existing      *)
(* store, every data row of the store has its values under the matching    *)
(* column names of the store's header: rows are appended in the header's   *)
(* column order, also when the existing header has the schema's columns in *)
(* a different order or has additional columns.                            *)
(***************************************************************************)
Completed == pc = "idle" /\ ret.op = "measure" /\ ret.raised = "none"

\* The rows the invocation appended read, under the store's header, as the
\* rows it measured.
AppendedUnderHeader ==
    LET n == Len(measurements)
        first == Len(storeLines) - n
    IN  \A k \in 1..n :
            /\ Len(storeLines[first + k]) <= Len(storeHeader)
            /\ \A c \in Range(FIELDNAMES) :
                   /\ c \in Range(storeHeader)
                   /\ CellAt(storeHeader, storeLines[first + k], c) = measurements[k][c]

C29_ValuesUnderColumnNames == Completed => AppendedUnderHeader

\* What holds: the rows are under their column names when the header has the
\* schema's order, which is the case of a new, a current and a migrated store.
C29_HoldsForSchemaOrder ==
    /\ (Completed /\ storeHeader = FIELDNAMES) => AppendedUnderHeader
    /\ (Completed /\ ret.before.header # <<>>
            /\ Range(FIELDNAMES) \subseteq Range(ret.before.header))
           => storeHeader = ret.before.header

\* A store whose header starts with vantage, run_id: the appended row has its
\* run_id under 'vantage' and its vantage under 'run_id'.
C29_Misplaced ==
    /\ Completed
    /\ Len(measurements) > 0
    /\ storeHeader[1] = "vantage"
    /\ storeHeader[2] = "run_id"
    /\ LET line == storeLines[Len(storeLines)]
           row == measurements[Len(measurements)]
       IN  /\ CellAt(storeHeader, line, "vantage") = row[FIELDNAMES[1]]
           /\ CellAt(storeHeader, line, "run_id") = row[FIELDNAMES[2]]
           /\ row["vantage"] # row[FIELDNAMES[1]]

(***************************************************************************)
(* C30: in classify(local_vantage = V), the local_http_outcome and the     *)
(* blockpage-seen flag used for a domain come from the same vantage V: the *)
(* local outcome is the aggregate of V's latest run and the flag is        *)
(* computed over V's rows, for every vantage label V the orchestrator      *)
(* accepts.                                                                *)
(***************************************************************************)
\* The summary is the one merge would write from the store at hand.
SummaryFresh ==
    LET local == load_local_summary(storeHeader, storeLines)
        ooni == load_ooni_summary(feedFile)
    IN  /\ local.raised = "none"
        /\ ooni.raised = "none"
        /\ summaryFile = TableFile(merge_and_save(local.rows, ooni.rows))

\* The aggregate outcome of a domain in the latest run of vantage V.
LatestOutcomeOf(df, V, domain) ==
    most_common(Column(SelectSeq(load_latest_for_vantage(df, V).rows,
                                 LAMBDA r : r["domain"] = domain),
                       "http_outcome"))

Classified == pc = "idle" /\ ret.op = "classify" /\ ret.raised = "none" /\ SummaryFresh

\* Every row classified has the outcome of vantage `outcomeOf` and the class
\* the classifier gives with the block-page rows of vantage `flagsOf`.
ClassifiedFrom(outcomeOf, flagsOf) ==
    LET df == StoreRows
    IN  \A r \in enrichedFile.rows :
            /\ r.local_http_outcome = LatestOutcomeOf(df, outcomeOf, r.domain)
            /\ r.censorship_class =
                   <<censorship_classify_row(
                         r, BlockpageRowsOf(storeHeader, storeLines, flagsOf))>>

C30_SameVantage == Classified => ClassifiedFrom(ret.local, ret.local)

\* What holds: the outcome is the one of IN-home whatever V is, and the flag
\* is the one of V; the two vantages agree when V is IN-home.
C30_HoldsForInHome == Classified => ClassifiedFrom(VANTAGE_FILTER, ret.local)

\* classify --local-vantage VPN-EU: a.gov.in is classified with the block
\* page IN-home saw as its local outcome, and with the flags of VPN-EU, which
\* saw none.
C30_MixedVantages ==
    /\ Classified
    /\ ret.local = <<"VPN-EU">>
    /\ \E r \in enrichedFile.rows :
           /\ r.domain = <<"a.gov.in">>
           /\ r.local_http_outcome = <<"blockpage_india">>
           /\ LatestOutcomeOf(StoreRows, <<"VPN-EU">>, r.domain) = <<"success">>
    /\ <<"a.gov.in">> \notin load_blockpage_flags(storeHeader, storeLines, <<"VPN-EU">>)
    /\ <<"a.gov.in">> \in load_blockpage_flags(storeHeader, storeLines, <<"IN-home">>)

====
